---- MODULE Spec2Model ----
(***************************************************************************)
(* Payment and trust-line orchestration of the XRPL payroll front end.     *)
(* XRPLService (lib/xrpl with issued-currency support) is modelled as a    *)
(* cooperative state machine: every async method is cut at its awaits, and *)
(* several invocations may be suspended at the same time.  The ledger      *)
(* client (connect, request, autofill, submitAndWait) is an external       *)
(* capability whose answers are chosen nondeterministically.               *)
(***************************************************************************)
EXTENDS Integers, Sequences, FiniteSets, TLC

\* ------------------------------------------------------------------ bounds
MaxCalls == 2           \* invocations started in one behaviour
MaxHookWallets == 3     \* records in the hook's wallet list
MaxHookConnects == 1    \* hook connect calls in flight

\* ------------------------------------------------------- program constants
MinAddressLength == 25
MaxAddressLength == 35
DefaultFeeDrops == 10
LedgerOffset == 20

\* ------------------------------------------------------------ value domains
\* A string is kept as what the program looks at: its first character, its
\* length, and an identity that tells different strings apart.
Text(first, len, id) == [first |-> first, len |-> len, id |-> id]

\* a classic address: 'r' followed by 33 characters
Address(tag) == Text("r", 34, tag)

\* this.wallet = null
Null == Text("", 0, "null")

AddrA == Address("a")
AddrB == Address("b")
AddrG == Address("g")
AddrR == Address("d")

EmptyDest == Text("", 0, "")
ShortDest == Text("r", 24, "short")
\* amounts are written in millionths of a unit: "2.5" and "0"
\* the (destination, amount) arguments of the payment calls
PaymentInputs ==
  {<<AddrR, 2500000>>, <<AddrR, 0>>, <<ShortDest, 2500000>>}

NativeInputs == {<<AddrR, 2500000>>}

Slots == {"c1", "c2"}

Codes == {"tesSUCCESS", "tecPATH_DRY", "tecUNFUNDED_PAYMENT"}

\* the fee command's drops.base_fee; 0 stands for an absent (falsy) field
FeeResponses == {12, 0}

LedgerIndexes == {100}

AutofillFees == {12}

LedgerLineSets == {{}, {AddrA, AddrR}}

StoredWalletLists == {<<>>, <<AddrA>>, <<AddrA, AddrB>>}

\* --------------------------------------------------------------- the state
VARIABLES
  wallets,      \* XRPLService.wallets: the stored records, by address
  wallet,       \* XRPLService.wallet: the active identity, or Null
  isConnected,  \* XRPLService.isConnected
  lines,        \* ledger: accounts holding the USD trust line to the issuer
  calls,        \* the invocations in progress or finished, one per slot
  started,      \* number of invocations started
  hook,         \* the state cells of the useXRPL hook (hooks/useXRPL.ts)
  stored,       \* localStorage 'xrpl_wallets': the persisted wallet list
  pinata,       \* PinataService: metadata cache, stored hashes, its call
  log,          \* addresses whose secret was written to the console
  ops,          \* wallet-management invocations, one per slot
  conv,         \* the native-amount conversion being computed
  store,        \* the zustand store useXRPL (part_003 lines 36-110)
  form          \* the handlers of WalletConnect.tsx and SendPayment.tsx

\* the state outside the XRPLService fields, the ledger and the hook
mgmt == <<pinata, log, ops, conv, store, form>>

vars ==
  <<wallets, wallet, isConnected, lines, calls, started, hook, stored, mgmt>>

\* -------------------------------------------------------- pure operations
IsValidAddress(address) ==
  /\ address.first = "r"
  /\ address.len >= MinAddressLength
  /\ address.len <= MaxAddressLength

\* the arguments a caller that validated its form passes on
WellFormedInputs ==
  {in \in PaymentInputs : IsValidAddress(in[1]) /\ in[2] > 0}

GenerateTrustlineInstructions(recipientAddress) ==
  [action |-> "setup_trustline", currency |-> "USD", issuer |-> "rMxCK",
   recipient |-> recipientAddress, limit |-> 1000000]

\* checkTrustline: any failure of account_lines is reported as "no line"
TrustlineExistsOnError(address, queryFails) ==
  queryFails \/ address \in lines

TrustlineExistsNever(address, queryFails) == FALSE

TrustlineExists(address, queryFails) ==
  IF queryFails THEN FALSE ELSE address \in lines

FeeOrDefault(baseFee) ==
  IF baseFee = 0 THEN DefaultFeeDrops ELSE baseFee

LastLedger(currentLedgerIndex) == currentLedgerIndex + LedgerOffset

\* ------------------------------------------------------- invocation records
NoOutcome == [reason |-> "none", code |-> "none", thrown |-> FALSE,
              recoverable |-> FALSE, payload |-> {}]

\* a resolved promise: the operation's success value
Returned(reason, code) ==
  [reason |-> reason, code |-> code, thrown |-> FALSE,
   recoverable |-> FALSE, payload |-> {}]

\* a rejected promise: a plain Error (message only) or a raw client error
Thrown(reason, code) ==
  [reason |-> reason, code |-> code, thrown |-> TRUE,
   recoverable |-> FALSE, payload |-> {}]

\* sendPaymentWithTrustlineHandling's {success: false, error}
ReturnedFailure(reason) ==
  [reason |-> reason, code |-> "none", thrown |-> FALSE,
   recoverable |-> FALSE, payload |-> {}]

Idle ==
  [kind |-> "none", pc |-> "idle", dest |-> EmptyDest, amount |-> 0,
   chk |-> Null, acct |-> Null, signer |-> Null, txType |-> "none",
   txFee |-> 0, txLLS |-> 0, fee |-> 0, ledgerQ |-> 0,
   feeFailed |-> FALSE, rcptExists |-> "unknown",
   reSender |-> "unknown", reSenderAddr |-> Null,
   reRcpt |-> "unknown", code |-> "none", outcome |-> NoOutcome,
   gw |-> 0, paySubmits |-> 0, submits |-> 0,
   senderExists |-> "unknown", asCode |-> "none", stCode |-> "none",
   setupFailed |-> FALSE, queryFailed |-> FALSE, lineHidden |-> FALSE,
   prevSetup |-> FALSE, prevSubmits |-> 0, stAcct |-> Null]

Bool3(b) == IF b THEN "true" ELSE "false"

\* the promise settles; the locals of the invocation go out of scope
Finish(r, outcome) ==
  [r EXCEPT !.pc = "done", !.outcome = outcome,
            !.chk = Null, !.signer = Null, !.txType = "none", !.txFee = 0,
            !.txLLS = 0, !.fee = 0, !.ledgerQ = 0, !.asCode = "none"]

\* the awaits of setupTrustline
SetupPcs ==
  {"st_connect", "st_check", "st_as_autofill", "st_as_submit",
   "st_ts_autofill", "st_ts_submit"}

\* An error raised inside a method: sendPayment, sendXRPPayment and
\* setupTrustline rethrow it; sendPaymentWithTrustlineHandling turns whatever
\* sendXRPPayment throws into {success: false, error: 'Payment failed: ...'}.
Raise(r, reason, code) ==
  IF r.kind = "xrp"
    THEN Finish(r, ReturnedFailure("PaymentFailed"))
    ELSE Finish([r EXCEPT !.setupFailed = @ \/ r.pc \in SetupPcs],
                Thrown(reason, code))

\* a gateway call is issued and the invocation suspends at it
Await(r, pc) == [r EXCEPT !.pc = pc, !.gw = @ + 1]

\* checkTrustline(address): the account_lines request
CallCheckTrustline(r, pc, address) ==
  [Await(r, pc) EXCEPT !.chk = address]

\* setupTrustline up to its first await
EnterSetupTrustline(r, w, connected) ==
  IF w = Null
    THEN Raise([r EXCEPT !.setupFailed = TRUE], "NoWalletConnected", "none")
  ELSE IF ~connected THEN Await(r, "st_connect")
  ELSE CallCheckTrustline(r, "st_check", w)

\* sendPayment from its try block on: setupTrustline first
EnterSendPaymentBody(r, w, connected) == EnterSetupTrustline(r, w, connected)

\* the fee request that opens the preparation of a Payment
BuildPayment(r, w) ==
  IF w = Null THEN Raise(r, "TypeError", "none")
  ELSE [Await(r, "fee") EXCEPT !.acct = w, !.txType = "Payment"]

\* sendXRPPayment up to its first await
EnterSendXRPPayment(r, w, connected) ==
  IF w = Null THEN Raise(r, "NoWalletConnected", "none")
  ELSE IF ~connected THEN Await(r, "xrp_connect")
  ELSE BuildPayment(r, w)

\* setupTrustline after checkTrustline reported no line: the AccountSet
BuildAccountSet(r, w) ==
  IF w = Null THEN Raise(r, "TypeError", "none")
  ELSE [Await(r, "st_as_autofill") EXCEPT !.acct = w, !.txType = "AccountSet"]

BuildTrustSet(r, w) ==
  IF w = Null THEN Raise(r, "TypeError", "none")
  ELSE [Await(r, "st_ts_autofill") EXCEPT !.acct = w, !.txType = "TrustSet",
                                          !.stAcct = w]

\* setupTrustline returned normally: its caller continues
AfterSetupTrustline(r, reason, code) ==
  IF r.kind = "trust" THEN Finish(r, Returned(reason, code))
  ELSE CallCheckTrustline([r EXCEPT !.asCode = "none"], "rcpt_check", r.dest)

\* this.wallet.sign(prepared) followed by client.submitAndWait(tx_blob)
SignAndSubmit(r, w, pc, fee, lls) ==
  IF w = Null THEN Raise(r, "TypeError", "none")
  ELSE [Await(r, pc) EXCEPT
          !.signer = w, !.txFee = fee, !.txLLS = lls,
          !.submits = @ + 1,
          !.paySubmits = IF r.txType = "Payment" THEN @ + 1 ELSE @]

Update(c, r) == calls' = [calls EXCEPT ![c] = r]

\* useXRPL's useState initial values (hooks/useXRPL.ts lines 7-11);
\* connecting holds the wallet lists captured by the connect calls in flight
\* ------------------------------------------------ wallet-management state
MetaNames == {"", "Alice"}

\* AccountMetadata (lib/pinata.ts lines 7-13), reduced to its name
Metadata == {[name |-> n] : n \in MetaNames}

WalletAddresses == {AddrA, AddrB, AddrG}

\* what a PinataService method gave back: a value, or a thrown error
Resolved(value) == [thrown |-> FALSE, value |-> value]
Rejected == [thrown |-> TRUE, value |-> Null]

PinataIdle ==
  [op |-> "none", pc |-> "idle", address |-> Null, meta |-> Null,
   outcome |-> Resolved(Null), fetches |-> 0, cached |-> FALSE,
   hashed |-> FALSE, failed |-> FALSE]

\* a new PinataService: empty cache (line 17); the hash map of localStorage
\* is whatever earlier sessions left
PinataInitial(hashes) ==
  [cache |-> [a \in WalletAddresses |-> Null], hashes |-> hashes,
   call |-> PinataIdle, calls |-> 0]

NoHashes == [a \in WalletAddresses |-> Null]

OpSlots == {"o1", "o2"}

\* the wallet-management invocations: two callers' slots and the
\* constructor's background autoConnect
AllOps == OpSlots \cup {"auto"}

OpIdle ==
  [kind |-> "none", pc |-> "idle", address |-> Null, import |-> FALSE,
   outcome |-> NoOutcome, attempt |-> 0, present |-> FALSE,
   dup |-> FALSE, pushed |-> FALSE, answer |-> "none", before |-> Null,
   n |-> 0]

NoConversion ==
  [pc |-> "idle", amount |-> Null, value |-> [m |-> <<>>, s |-> 0],
   drops |-> 0]

\* the store's initial state, lines 36-39; settled[o] is the number of
\* the last service call of slot o whose store continuation has run
StoreInitial ==
  [xrplService |-> FALSE, isConnected |-> FALSE, walletAddress |-> Null,
   settled |-> [o \in OpSlots |-> 0]]

\* WalletConnect.tsx handleConnectWithSecretKey, not running: key and
\* address are the walletAddress of the render that made the handler, seen
\* and client the wallet list and client of that render, imported the
\* address addWallet returned
ImportIdle ==
  [pc |-> "idle", key |-> Null, address |-> Null, name |-> "",
   secret |-> Null, imported |-> Null, seen |-> <<>>, client |-> FALSE,
   imports |-> 0]

\* SendPayment.tsx line 41: useState(false), with no submission made
SubmitIdle ==
  [pc |-> "idle", isLoading |-> FALSE, outcome |-> "none", seen |-> <<>>,
   client |-> FALSE, walletAddress |-> Null, employee |-> Null,
   amount |-> FALSE, submits |-> 0]

\* the components' handlers
FormIdle == [import |-> ImportIdle, submit |-> SubmitIdle]

ManagementInitial ==
  /\ pinata = PinataInitial(NoHashes)
  /\ log = {}
  /\ ops = [o \in AllOps |-> OpIdle]
  /\ conv = NoConversion
  /\ store = StoreInitial
  /\ form = FormIdle

HookSendIdle == [pc |-> "idle", addr |-> Null, result |-> "none"]

HookInitial ==
  [client |-> FALSE, isConnected |-> FALSE, walletAddress |-> Null,
   wallets |-> <<>>, connecting |-> {}, balance |-> Null, reading |-> {},
   send |-> HookSendIdle, sends |-> 0]

\* -------------------------------------------------------------------- Init
\* The constructor has loaded the stored wallet list and activated its first
\* record; the ledger holds any set of trust lines.
Init ==
  /\ wallets \in StoredWalletLists
  /\ wallet = IF Len(wallets) > 0 THEN wallets[1] ELSE Null
  /\ isConnected = FALSE
  /\ lines \in LedgerLineSets
  /\ calls = [c \in Slots |-> Idle]
  /\ started = 0
  /\ hook = HookInitial
  /\ stored = wallets
  /\ ManagementInitial

\* a second slot is taken only by an invocation that overlaps another one
CanStart(c) ==
  /\ calls[c].pc \in {"idle", "done"}
  /\ started < MaxCalls
  /\ c = "c2" => calls["c1"].pc \notin {"idle", "done"}

NoActiveWalletIgnored(w) == FALSE

\* if (!this.wallet): lines 528, 497 and 701
NoActiveWallet(w) == w = Null

\* sendPayment(destination, amount): lines 527-538
StartSendPayment(c, destination, amount) ==
  /\ CanStart(c)
  /\ started' = started + 1
  /\ LET r == [Idle EXCEPT !.kind = "pay", !.dest = destination, !.amount = amount]
     IN Update(c, IF NoActiveWallet(wallet)
                    THEN Finish(r, Thrown("NoWalletConnected", "none"))
                  ELSE IF ~isConnected THEN Await(r, "connect")
                  ELSE EnterSendPaymentBody(r, wallet, isConnected))
  /\ UNCHANGED <<wallets, wallet, isConnected, lines, hook, stored, mgmt>>

\* sendPaymentWithTrustlineHandling(destination, amount): lines 492-516
StartSendPaymentWithTrustlineHandling(c, destination, amount) ==
  /\ CanStart(c)
  /\ started' = started + 1
  /\ LET r == [Idle EXCEPT !.kind = "xrp", !.dest = destination, !.amount = amount]
     IN Update(c, IF NoActiveWallet(wallet)
                    THEN Finish(r, ReturnedFailure("NoWalletConnected"))
                  ELSE IF ~isConnected THEN Await(r, "connect")
                  ELSE EnterSendXRPPayment(r, wallet, isConnected))
  /\ UNCHANGED <<wallets, wallet, isConnected, lines, hook, stored, mgmt>>

\* setupTrustline(): lines 700-710
StartSetupTrustline(c) ==
  /\ CanStart(c)
  /\ started' = started + 1
  /\ LET p == calls[c]
         \* the call before this one established the line of the same account
         again == /\ p.kind = "trust" /\ p.pc = "done" /\ ~p.outcome.thrown
                  /\ p.stCode = "tesSUCCESS"
                  /\ p.acct = wallet /\ wallet # Null
         r == [Idle EXCEPT !.kind = "trust", !.prevSetup = again,
                           !.prevSubmits = IF again THEN p.submits ELSE 0]
     IN Update(c, IF NoActiveWallet(wallet)
                    THEN Finish(r, Thrown("NoWalletConnected", "none"))
                  ELSE EnterSetupTrustline(r, wallet, isConnected))
  /\ UNCHANGED <<wallets, wallet, isConnected, lines, hook, stored, mgmt>>

\* checkTrustline(address): lines 465-471, the account_lines request is sent
StartCheckTrustline(c, address) ==
  /\ CanStart(c)
  /\ started' = started + 1
  /\ Update(c, CallCheckTrustline([Idle EXCEPT !.kind = "check", !.dest = address],
                                  "check", address))
  /\ UNCHANGED <<wallets, wallet, isConnected, lines, hook, stored, mgmt>>

\* checkTrustline lines 472-488: the request settles; the catch block answers
\* { exists: false }
CheckTrustlineResolve(c) ==
  /\ calls[c].pc = "check"
  /\ \E queryFails \in BOOLEAN :
       LET r == [calls[c] EXCEPT !.queryFailed = queryFails]
       IN Update(c, Finish(r, Returned(IF TrustlineExists(r.chk, queryFails)
                                         THEN "TrustlineExists"
                                         ELSE "NoTrustline", "none")))
  /\ UNCHANGED <<wallets, wallet, isConnected, lines, started, hook, stored, mgmt>>

\* connect(): client.connect() settles
ConnectResolve(c) ==
  /\ calls[c].pc \in {"connect", "st_connect", "xrp_connect"}
  /\ \E ok \in BOOLEAN :
       LET r == calls[c] IN
       IF ok
         THEN /\ isConnected' = TRUE
              /\ Update(c,
                   IF r.pc = "st_connect"
                     THEN IF wallet = Null THEN Raise(r, "TypeError", "none")
                          ELSE CallCheckTrustline(r, "st_check", wallet)
                   ELSE IF r.pc = "xrp_connect" THEN BuildPayment(r, wallet)
                   ELSE IF r.kind = "pay" THEN EnterSendPaymentBody(r, wallet, TRUE)
                   ELSE EnterSendXRPPayment(r, wallet, TRUE))
         ELSE /\ isConnected' = isConnected
              /\ Update(c,
                   IF r.kind = "xrp" /\ r.pc = "connect"
                     THEN Finish(r, ReturnedFailure("FailedToConnect"))
                   ELSE Raise(r, "ConnectError", "none"))
  /\ UNCHANGED <<wallets, wallet, lines, started, hook, stored, mgmt>>

SenderCheckNeverSatisfied(exists) == FALSE

\* setupTrustline line 711: if (trustlineStatus.exists)
SenderCheckSatisfied(exists) == exists

\* setupTrustline, lines 710-724: checkTrustline(this.wallet.address) settles
StCheckResolve(c) ==
  /\ calls[c].pc = "st_check"
  /\ \E queryFails \in BOOLEAN :
       LET r == calls[c]
           exists == TrustlineExists(r.chk, queryFails)
           \* lineHidden: the request failed for an account that has the line
           r1 == [r EXCEPT !.senderExists = Bool3(exists),
                           !.lineHidden = queryFails /\ r.chk \in lines]
       IN Update(c, IF SenderCheckSatisfied(exists)
                      THEN AfterSetupTrustline(r1, "AlreadyExists", "none")
                      ELSE BuildAccountSet(r1, wallet))
  /\ UNCHANGED <<wallets, wallet, isConnected, lines, started, hook, stored, mgmt>>

\* setupTrustline, lines 724-726 and 739-741: client.autofill settles,
\* the prepared transaction is signed and submitted as autofill left it
StAutofillResolve(c) ==
  /\ calls[c].pc \in {"st_as_autofill", "st_ts_autofill"}
  /\ LET r == calls[c]
         next == IF r.pc = "st_as_autofill" THEN "st_as_submit" ELSE "st_ts_submit"
     IN \/ Update(c, Raise(r, "TransportError", "none"))
        \/ \E f \in AutofillFees, l \in LedgerIndexes :
             Update(c, SignAndSubmit(r, wallet, next, f, l + LedgerOffset))
  /\ UNCHANGED <<wallets, wallet, isConnected, lines, started, hook, stored, mgmt>>

\* the result codes the ledger can give a signed transaction
LedgerCodes(r) ==
  IF r.signer = r.acct THEN Codes ELSE {"tefBAD_AUTH"}

\* setupTrustline, lines 726-739: the AccountSet is final; its result code is
\* not looked at
StAccountSetResolve(c) ==
  /\ calls[c].pc = "st_as_submit"
  /\ LET r == calls[c]
     IN \/ Update(c, Raise(r, "TransportError", "none"))
        \/ \E code \in LedgerCodes(r) :
             Update(c, BuildTrustSet([r EXCEPT !.asCode = code], wallet))
  /\ UNCHANGED <<wallets, wallet, isConnected, lines, started, hook, stored, mgmt>>

TrustSetSucceededLenient(code) == code \in {"tesSUCCESS", "tecPATH_DRY"}

\* setupTrustline line 745: the result code is compared with tesSUCCESS
TrustSetSucceeded(code) == code = "tesSUCCESS"

TrustSetFailureStepSwallowed(r, code) ==
  AfterSetupTrustline(r, "TrustlineSetupFailedWithCode", code)

\* setupTrustline lines 748-752: the error is thrown, logged and rethrown;
\* sendPayment's catch (597-600) rethrows it
TrustSetFailureStep(r, code) ==
  Raise(r, "TrustlineSetupFailedWithCode", code)

\* setupTrustline, lines 741-752: the TrustSet is final
StTrustSetResolve(c) ==
  /\ calls[c].pc = "st_ts_submit"
  /\ LET r == calls[c]
     IN \/ /\ Update(c, Raise(r, "TransportError", "none"))
           /\ lines' = lines
        \/ \E code \in LedgerCodes(r) :
             /\ lines' = IF code = "tesSUCCESS" THEN lines \cup {r.acct} ELSE lines
             /\ LET r1 == [r EXCEPT !.stCode = code]
                IN Update(c, IF TrustSetSucceeded(code)
                               THEN AfterSetupTrustline(r1, "TrustlineSuccess", code)
                               ELSE TrustSetFailureStep(r1, code))
  /\ UNCHANGED <<wallets, wallet, isConnected, started, hook, stored, mgmt>>

RecipientCheckIgnored(exists) == TRUE

\* sendPayment line 542: the payment goes on only for an existing line
RecipientCheckPasses(exists) == exists

\* sendPayment, lines 541-559: checkTrustline(destination) settles
RcptCheckResolve(c) ==
  /\ calls[c].pc = "rcpt_check"
  /\ \E queryFails \in BOOLEAN :
       LET r == calls[c]
           exists == TrustlineExists(r.chk, queryFails)
           r1 == [r EXCEPT !.rcptExists = Bool3(exists)]
       IN Update(c, IF RecipientCheckPasses(exists)
                      THEN BuildPayment(r1, wallet)
                      ELSE Raise(r1, "RecipientTrustlineMissing", "none"))
  /\ UNCHANGED <<wallets, wallet, isConnected, lines, started, hook, stored, mgmt>>

\* lines 559-564 and 626-631: the fee request settles
FeeResolve(c) ==
  /\ calls[c].pc = "fee"
  /\ LET r == calls[c]
     IN \/ Update(c, Raise([r EXCEPT !.feeFailed = TRUE], "TransportError", "none"))
        \/ \E baseFee \in FeeResponses :
             Update(c, [Await(r, "ledger") EXCEPT !.fee = FeeOrDefault(baseFee)])
  /\ UNCHANGED <<wallets, wallet, isConnected, lines, started, hook, stored, mgmt>>

\* lines 564-569 and 631-636: the ledger_current request settles
LedgerResolve(c) ==
  /\ calls[c].pc = "ledger"
  /\ LET r == calls[c]
     IN \/ Update(c, Raise(r, "TransportError", "none"))
        \/ \E idx \in LedgerIndexes :
             Update(c, [Await(r, "autofill") EXCEPT !.ledgerQ = idx])
  /\ UNCHANGED <<wallets, wallet, isConnected, lines, started, hook, stored, mgmt>>

\* lines 569-574 and 636-641: autofill settles; LastLedgerSequence and Fee are
\* overwritten, the transaction is signed and submitted
AutofillResolve(c) ==
  /\ calls[c].pc = "autofill"
  /\ LET r == calls[c]
     IN \/ Update(c, Raise(r, "TransportError", "none"))
        \/ Update(c, SignAndSubmit(r, wallet, "submit", r.fee, LastLedger(r.ledgerQ)))
  /\ UNCHANGED <<wallets, wallet, isConnected, lines, started, hook, stored, mgmt>>

\* sendPayment lines 585-593: the failure after a tecPATH_DRY re-check
PathDryFailure(senderExists, recipientExists) ==
  IF ~senderExists THEN "SenderTrustlineNotSetUp"
  ELSE IF ~recipientExists THEN "RecipientTrustlineNotSetUp"
  ELSE "NoLiquidityPath"

PaymentResultStepLenient(r, code, w) ==
  LET r1 == [r EXCEPT !.code = code] IN
  IF r.kind = "xrp" THEN Finish(r1, Returned("Success", code))
  ELSE IF code \in {"tesSUCCESS", "tecUNFUNDED_PAYMENT"}
    THEN Finish(r1, Returned("Success", code))
  ELSE IF code = "tecPATH_DRY"
    THEN IF w = Null THEN Raise(r1, "TypeError", "none")
         ELSE [CallCheckTrustline(r1, "re_sender", w) EXCEPT !.reSenderAddr = w]
  ELSE Raise(r1, "PaymentFailedWithCode", code)

PaymentResultStepRetry(r, code, w) ==
  LET r1 == [r EXCEPT !.code = code] IN
  IF code = "tesSUCCESS" THEN Finish(r1, Returned("Success", code))
  ELSE SignAndSubmit(r1, w, "submit", r.fee, r.txLLS)

\* What follows the final result of the submitted Payment.
\* sendXRPPayment (line 643) returns the result whatever its code and
\* sendPaymentWithTrustlineHandling (line 517) reports success: true;
\* sendPayment (lines 576-596) looks at meta.TransactionResult.
PaymentResultStep(r, code, w) ==
  LET r1 == [r EXCEPT !.code = code] IN
  IF r.kind = "xrp" THEN Finish(r1, Returned("Success", code))
  ELSE IF code = "tesSUCCESS" THEN Finish(r1, Returned("Success", code))
  ELSE IF code = "tecPATH_DRY"
    THEN IF w = Null THEN Raise(r1, "TypeError", "none")
         ELSE [CallCheckTrustline(r1, "re_sender", w) EXCEPT !.reSenderAddr = w]
  ELSE Raise(r1, "PaymentFailedWithCode", code)

\* lines 574-582 and 641-643: submitAndWait of the Payment settles
SubmitResolve(c) ==
  /\ calls[c].pc = "submit"
  /\ LET r == calls[c]
     IN \/ Update(c, Raise(r, "TransportError", "none"))
        \/ \E code \in LedgerCodes(r) : Update(c, PaymentResultStep(r, code, wallet))
  /\ UNCHANGED <<wallets, wallet, isConnected, lines, started, hook, stored, mgmt>>

\* sendPayment lines 582-583: the sender re-check settles, the recipient
\* re-check is issued
ReSenderResolve(c) ==
  /\ calls[c].pc = "re_sender"
  /\ \E queryFails \in BOOLEAN :
       LET r == calls[c]
           exists == TrustlineExists(r.chk, queryFails)
       IN Update(c, CallCheckTrustline([r EXCEPT !.reSender = Bool3(exists)],
                                       "re_rcpt", r.dest))
  /\ UNCHANGED <<wallets, wallet, isConnected, lines, started, hook, stored, mgmt>>

\* sendPayment lines 583-593: the recipient re-check settles
ReRcptResolve(c) ==
  /\ calls[c].pc = "re_rcpt"
  /\ \E queryFails \in BOOLEAN :
       LET r == calls[c]
           exists == TrustlineExists(r.chk, queryFails)
           r1 == [r EXCEPT !.reRcpt = Bool3(exists)]
       IN Update(c, Raise(r1, PathDryFailure(r.reSender = "true", exists), "none"))
  /\ UNCHANGED <<wallets, wallet, isConnected, lines, started, hook, stored, mgmt>>

PromoteNone(remaining) == Null

\* removeWallet lines 346-348: the first remaining record becomes active
PromoteFirstRemaining(remaining) ==
  IF Len(remaining) > 0 THEN remaining[1] ELSE Null

RemoveAt(s, i) == SubSeq(s, 1, i - 1) \o SubSeq(s, i + 1, Len(s))

\* removeWallet(address): lines 336-350
RemoveWallet(address) ==
  /\ \E i \in 1..Len(wallets) :
       /\ wallets[i] = address
       /\ \A j \in 1..(i - 1) : wallets[j] # address
       /\ wallets' = RemoveAt(wallets, i)
  /\ stored' = wallets'
  /\ wallet' = IF wallet = address
                 THEN PromoteFirstRemaining(wallets')
                 ELSE wallet
  /\ UNCHANGED <<isConnected, lines, calls, started, hook, mgmt>>

Next ==
  \/ \E c \in Slots, in \in WellFormedInputs : StartSendPayment(c, in[1], in[2])
  \/ \E c \in Slots, in \in NativeInputs :
       StartSendPaymentWithTrustlineHandling(c, in[1], in[2])
  \/ \E c \in Slots : StartSetupTrustline(c)
  \/ \E c \in Slots : StartCheckTrustline(c, AddrR)
  \/ \E c \in Slots : CheckTrustlineResolve(c)
  \/ \E c \in Slots : ConnectResolve(c)
  \/ \E c \in Slots : StCheckResolve(c)
  \/ \E c \in Slots : StAutofillResolve(c)
  \/ \E c \in Slots : StAccountSetResolve(c)
  \/ \E c \in Slots : StTrustSetResolve(c)
  \/ \E c \in Slots : RcptCheckResolve(c)
  \/ \E c \in Slots : FeeResolve(c)
  \/ \E c \in Slots : LedgerResolve(c)
  \/ \E c \in Slots : AutofillResolve(c)
  \/ \E c \in Slots : SubmitResolve(c)
  \/ \E c \in Slots : ReSenderResolve(c)
  \/ \E c \in Slots : ReRcptResolve(c)
  \/ \E a \in {AddrA, AddrB} : RemoveWallet(a)

Spec == Init /\ [][Next]_vars

\* ------------------------------------------- sendPayment on any arguments
\* One sendPayment call at a time, on well-formed and malformed arguments.
InputNext ==
  \/ \E in \in PaymentInputs : StartSendPayment("c1", in[1], in[2])
  \/ ConnectResolve("c1")
  \/ StCheckResolve("c1")
  \/ StAutofillResolve("c1")
  \/ StAccountSetResolve("c1")
  \/ StTrustSetResolve("c1")
  \/ RcptCheckResolve("c1")
  \/ FeeResolve("c1")
  \/ LedgerResolve("c1")
  \/ AutofillResolve("c1")
  \/ SubmitResolve("c1")
  \/ ReSenderResolve("c1")
  \/ ReRcptResolve("c1")

InputSpec == Init /\ [][InputNext]_vars

\* ------------------------------------------------------- the useXRPL hook
\* Every handler runs against the values of the render it was created in;
\* the state setters it calls take effect together, in the next render.
Range(s) == {s[i] : i \in 1..Len(s)}

HookAddresses == {AddrA, AddrB}

HookInit ==
  /\ wallets = <<>>
  /\ wallet = Null
  /\ isConnected = FALSE
  /\ lines = {}
  /\ calls = [c \in Slots |-> Idle]
  /\ started = 0
  /\ hook = HookInitial
  /\ stored = wallets
  /\ ManagementInitial

ServiceUnchanged ==
  UNCHANGED <<wallets, wallet, isConnected, lines, calls, started, stored,
              mgmt>>

\* what account_info reports as the balance of an account, in drops
LedgerBalances == {[xrp |-> 1000000], [xrp |-> 997500]}

\* getBalance(address), lines 34-51: the balance read from the ledger, null
\* when the request fails
BalanceReads == LedgerBalances \cup {Null}

\* the effect of lines 53-57: a render with a client and a new active address
\* (or a new client) starts getBalance(walletAddress).then(setBalance)
BalanceEffect(before, after) ==
  IF /\ after.client /\ after.walletAddress # Null
     /\ (after.client # before.client
           \/ after.walletAddress # before.walletAddress)
    THEN [after EXCEPT !.reading = @ \cup {after.walletAddress}]
    ELSE after

\* the read started by the effect settles and its value is displayed
HookBalanceResolve ==
  /\ \E a \in hook.reading, b \in BalanceReads :
       hook' = [hook EXCEPT !.reading = @ \ {a}, !.balance = b]
  /\ ServiceUnchanged

MaxHookSends == 1

\* getSecretKey(address), lines 110-116: the seed of the listed record
HasSecretKey(address) == address \in Range(hook.wallets)

HookSendReturn(h, res) ==
  [h EXCEPT !.send = [pc |-> "idle", addr |-> Null, result |-> res]]

\* the hook's sendPayment(destination, amount), lines 118-136: refusals
\* without client, active address or seed; otherwise autofill is awaited
HookStartSendPayment ==
  /\ hook.send.pc = "idle"
  /\ hook.sends < MaxHookSends
  /\ hook' =
       IF ~hook.client \/ hook.walletAddress = Null
            \/ ~HasSecretKey(hook.walletAddress)
         THEN [HookSendReturn(hook, "failure") EXCEPT !.sends = @ + 1]
         ELSE [hook EXCEPT !.sends = @ + 1,
                           !.send = [pc |-> "autofill",
                                     addr |-> hook.walletAddress,
                                     result |-> "none"]]
  /\ ServiceUnchanged

\* lines 130-139: autofill settles, the transaction is signed and submitted
HookSendAutofillResolve ==
  /\ hook.send.pc = "autofill"
  /\ \E ok \in BOOLEAN :
       hook' = IF ok THEN [hook EXCEPT !.send.pc = "submit"]
                     ELSE HookSendReturn(hook, "failure")
  /\ ServiceUnchanged

\* lines 142-163: submitAndWait settles; on tesSUCCESS the balance of the
\* sending address is requested
HookSendSubmitResolve ==
  /\ hook.send.pc = "submit"
  /\ \E code \in {"tesSUCCESS", "tecPATH_DRY", "throws"} :
       hook' = IF code = "tesSUCCESS"
                 THEN [hook EXCEPT !.send.pc = "balance"]
                 ELSE HookSendReturn(hook, "failure")
  /\ ServiceUnchanged

\* lines 148-150: getBalance(walletAddress) settles, setBalance(newBalance),
\* the success result is returned
HookSendBalanceResolve ==
  /\ hook.send.pc = "balance"
  /\ \E b \in BalanceReads :
       hook' = [HookSendReturn(hook, "success") EXCEPT !.balance = b]
  /\ ServiceUnchanged

\* connect, lines 13-17: the client is created and client.connect() awaited
HookConnect ==
  /\ Cardinality(hook.connecting) < MaxHookConnects
  /\ hook' = [hook EXCEPT !.connecting = @ \cup {hook.wallets}]
  /\ ServiceUnchanged

\* connect, lines 18-31: client.connect() settles; on success the first
\* wallet of the list seen by the call becomes active
HookConnectResolve ==
  /\ \E seen \in hook.connecting, ok \in BOOLEAN :
       hook' = IF ok
                 THEN BalanceEffect(hook,
                        [hook EXCEPT
                           !.connecting = @ \ {seen},
                           !.client = TRUE, !.isConnected = TRUE,
                           !.walletAddress =
                              IF Len(seen) > 0 THEN seen[1] ELSE @])
                 ELSE [hook EXCEPT !.connecting = @ \ {seen}]
  /\ ServiceUnchanged

\* addWallet(name, secret), lines 59-90: the imported or generated wallet is
\* appended and made active; without a client nothing happens
HookAddWallet(address) ==
  /\ Len(hook.wallets) < MaxHookWallets
  /\ hook' = IF ~hook.client THEN hook
             ELSE BalanceEffect(hook,
                    [hook EXCEPT !.wallets = Append(@, address),
                                 !.walletAddress = address])
  /\ ServiceUnchanged

\* switchWallet(address), lines 92-94
HookSwitchWallet(address) ==
  /\ hook' = BalanceEffect(hook, [hook EXCEPT !.walletAddress = address])
  /\ ServiceUnchanged

\* removeWallet(address), lines 100-108: the list is filtered by an updater,
\* the new active address is computed from the list of the current render
HookRemoveWallet(address) ==
  /\ LET Keep(w) == w # address
     IN hook' = BalanceEffect(hook,
                  [hook EXCEPT
                     !.wallets = SelectSeq(@, Keep),
                     !.walletAddress =
                        IF @ = address
                          THEN IF Len(hook.wallets) > 1
                                 THEN hook.wallets[1] ELSE Null
                          ELSE @])
  /\ ServiceUnchanged

HookNext ==
  \/ HookConnect
  \/ HookConnectResolve
  \/ \E a \in HookAddresses : HookAddWallet(a)
  \/ \E a \in HookAddresses : HookSwitchWallet(a)
  \/ \E a \in HookAddresses : HookRemoveWallet(a)
  \/ HookBalanceResolve
  \/ HookStartSendPayment
  \/ HookSendAutofillResolve
  \/ HookSendSubmitResolve
  \/ HookSendBalanceResolve

HookSpec == HookInit /\ [][HookNext]_vars

\* ------------------------------------------- XRPLService wallet management
MaxOps == 2

\* waitForFunding(maxAttempts = 20)
MaxAttempts == 20

\* Wallet.generate() yields an address no stored record has
GenAddresses == {AddrG}

\* addWallet's secretKey argument, by the address Wallet.fromSeed derives
\* from it: Null stands for a secret fromSeed rejects; no secret generates
AddInputs ==
  {[import |-> TRUE, address |-> AddrA], [import |-> TRUE, address |-> AddrB],
   [import |-> TRUE, address |-> Null], [import |-> FALSE, address |-> Null]}

\* the constructor has loaded the stored list, activated its first record and
\* started autoConnect, which waits for client.connect() (lines 211-220)
WalletInit ==
  /\ wallets \in StoredWalletLists
  /\ wallet = IF Len(wallets) > 0 THEN wallets[1] ELSE Null
  /\ isConnected = FALSE
  /\ lines = {}
  /\ calls = [c \in Slots |-> Idle]
  /\ started = 0
  /\ hook = HookInitial
  /\ stored = wallets
  /\ pinata = PinataInitial([a \in WalletAddresses |->
                               IF a \in Range(wallets)
                                 THEN [name |-> "Alice"] ELSE Null])
  /\ log = {}
  /\ ops = [o \in AllOps |->
              IF o = "auto" THEN [OpIdle EXCEPT !.kind = "auto",
                                                !.pc = "ac_connect"]
                            ELSE OpIdle]
  /\ conv = NoConversion
  /\ store = StoreInitial
  /\ form = FormIdle

OpInFlight(o) == ops[o].pc \notin {"idle", "done"}

\* a second slot is taken only by an invocation that overlaps another one
CanStartOp(o) ==
  /\ o \in OpSlots
  /\ ~OpInFlight(o)
  /\ ops["o1"].n + ops["o2"].n < MaxOps
  /\ o = "o2" => OpInFlight("o1")

NewOp(o, kind, address, import) ==
  [OpIdle EXCEPT !.kind = kind, !.address = address, !.import = import,
                 !.n = ops[o].n + 1,
                 !.present = address \in Range(wallets)]

OpFinish(r, outcome) ==
  [r EXCEPT !.pc = "done", !.outcome = outcome, !.attempt = 0,
            !.before = Null]

OpThrow(r, reason) == OpFinish(r, Thrown(reason, "none"))

OpReturn(r) == OpFinish(r, Returned("Done", "none"))

DuplicateNeverFound(address) == FALSE

\* addWallet lines 293-296: this.wallets.find(w => w.address === ...)
DuplicateFound(address) == address \in Range(wallets)

\* addWallet lines 288-312 of part_003 (97-128 of lib/xrpl.ts): the secret is
\* turned into a wallet and checked against the set, or a wallet is
\* generated; lib/xrpl.ts line 128 logs the record with its seed; then
\* saveAccountMetadata is awaited
AddWalletBody(o, q) ==
  LET r == [q EXCEPT !.dup = q.import /\ q.address \in Range(wallets)] IN
  IF r.import /\ r.address = Null
    THEN ops' = [ops EXCEPT ![o] = OpThrow(r, "InvalidSecret")]
         /\ log' = log
  ELSE IF r.import /\ DuplicateFound(r.address)
    THEN ops' = [ops EXCEPT ![o] =
                   OpThrow(r, "WalletAlreadyImported")]
         /\ log' = log
  ELSE \E a \in IF r.import THEN {r.address}
                            ELSE GenAddresses \ Range(wallets) :
         /\ ops' = [ops EXCEPT ![o] = [r EXCEPT !.pc = "aw_meta",
                                                !.address = a]]
         /\ log' = log \cup {a}

\* addWallet(name, secretKey), lines 283-286
StartAddWallet(o, in) ==
  /\ CanStartOp(o)
  /\ LET r == NewOp(o, "add", in.address, in.import)
     IN IF ~isConnected
          THEN ops' = [ops EXCEPT ![o] = [r EXCEPT !.pc = "aw_connect"]]
               /\ log' = log
          ELSE AddWalletBody(o, r)
  /\ UNCHANGED <<wallets, wallet, isConnected, lines, calls, started, hook,
                 stored, pinata, conv, store, form>>

\* connect() lines 352-365 awaited by addWallet settles
AwConnectResolve(o) ==
  /\ ops[o].pc = "aw_connect"
  /\ \E ok \in BOOLEAN :
       IF ok THEN isConnected' = TRUE /\ AddWalletBody(o, ops[o])
             ELSE /\ ops' = [ops EXCEPT ![o] =
                              OpThrow(@, "ConnectionFailed")]
                  /\ UNCHANGED <<isConnected, log>>
  /\ UNCHANGED <<wallets, wallet, lines, calls, started, hook, stored,
                 pinata, conv, store, form>>

\* waitForFunding lines 385-391: the next account_info request is issued for
\* this.wallet.address, or the attempts are used up (line 409)
AttemptsNeverExhausted(i) == FALSE

\* the loop condition i < maxAttempts of line 385, negated
AttemptsExhausted(i) == i >= MaxAttempts

EnterPoll(r, i) ==
  IF AttemptsExhausted(i) THEN OpThrow(r, "FundingTimedOut")
  ELSE IF wallet = Null THEN OpThrow(r, "TypeError")
  ELSE [r EXCEPT !.pc = "poll", !.attempt = i]

\* saveAccountMetadata settles, lines 314-331: on success the record is
\* pushed, persisted and made active; a generated wallet is then funded
AwMetaResolve(o) ==
  /\ ops[o].pc = "aw_meta"
  /\ \E ok \in BOOLEAN :
       LET a == ops[o].address
       IN IF ~ok
            THEN /\ ops' = [ops EXCEPT ![o] =
                             OpThrow(@, "MetadataSaveFailed")]
                 /\ UNCHANGED <<wallets, wallet, stored, pinata>>
            ELSE /\ pinata' = [pinata EXCEPT
                                 !.cache[a] = [name |-> "Alice"],
                                 !.hashes[a] = [name |-> "Alice"]]
                 /\ wallets' = Append(wallets, a)
                 /\ stored' = wallets'
                 /\ wallet' = a
                 /\ ops' = [ops EXCEPT ![o] =
                              LET r == [@ EXCEPT !.pushed = TRUE]
                              IN IF r.import THEN OpReturn(r)
                                 ELSE [r EXCEPT !.pc = "fund"]]
  /\ UNCHANGED <<isConnected, lines, calls, started, hook, log, conv, store,
                 form>>

\* client.fundWallet settles (fundWallet lines 445-462); waitForFunding
\* begins, lines 380-384
FundResolve(o) ==
  /\ ops[o].pc = "fund"
  /\ UNCHANGED <<wallets, wallet, isConnected, lines, calls, started, hook,
                 stored, pinata, log, conv, store, form>>
  /\ \E ok \in BOOLEAN :
       ops' = [ops EXCEPT ![o] =
                 IF ~ok THEN OpThrow(@, "FundingFailed")
                 ELSE IF wallet = Null THEN OpThrow(@, "NoWalletConnected")
                 ELSE EnterPoll(@, 0)]

\* what a funding poll can be answered with
PollAnswers == {"funded", "noBalance", "notFound", "error"}

\* the account_info poll settles, lines 392-406
PollResolve(o) ==
  /\ ops[o].pc = "poll"
  /\ \E answer \in PollAnswers :
       ops' = [ops EXCEPT ![o] =
                 LET r == [@ EXCEPT !.answer = answer]
                 IN IF answer = "funded" THEN OpReturn(r)
                    ELSE IF answer = "error" THEN OpThrow(r, "RawError")
                    ELSE [r EXCEPT !.pc = "sleep"]]
  /\ UNCHANGED <<wallets, wallet, isConnected, lines, calls, started, hook,
                 stored, pinata, log, conv, store, form>>

\* the 3000 ms timer of line 406 fires and the loop goes round
SleepResolve(o) ==
  /\ ops[o].pc = "sleep"
  /\ UNCHANGED <<wallets, wallet, isConnected, lines, calls, started, hook,
                 stored, pinata, log, conv, store, form>>
  /\ ops' = [ops EXCEPT ![o] = EnterPoll(@, @.attempt + 1)]

\* switchWallet lines 275-280: updateAccountMetadata is awaited
SwitchWalletBody(r) == [r EXCEPT !.pc = "sw_meta"]

\* switchWallet(address), lines 264-273
StartSwitchWallet(o, address) ==
  /\ CanStartOp(o)
  /\ LET r == [NewOp(o, "switch", address, FALSE) EXCEPT !.before = wallet]
     IN IF address \notin Range(wallets)
          THEN ops' = [ops EXCEPT ![o] = OpThrow(r, "WalletNotFound")]
               /\ wallet' = wallet
          ELSE /\ wallet' = address
               /\ ops' = [ops EXCEPT ![o] =
                            IF ~isConnected
                              THEN [r EXCEPT !.pc = "sw_connect"]
                              ELSE SwitchWalletBody(r)]
  /\ UNCHANGED <<wallets, isConnected, lines, calls, started, hook, stored,
                 pinata, log, conv, store, form>>

SwConnectResolve(o) ==
  /\ ops[o].pc = "sw_connect"
  /\ \E ok \in BOOLEAN :
       IF ok THEN /\ isConnected' = TRUE
                  /\ ops' = [ops EXCEPT ![o] = SwitchWalletBody(@)]
             ELSE /\ ops' = [ops EXCEPT ![o] =
                              OpThrow(@, "ConnectionFailed")]
                  /\ isConnected' = isConnected
  /\ UNCHANGED <<wallets, wallet, lines, calls, started, hook, stored,
                 pinata, log, conv, store, form>>

\* updateAccountMetadata (pinata.ts lines 105-122) settles: the record found
\* in the cache or fetched by its hash is pinned again; then getBalance
\* (lines 650-658) is entered
SwMetaResolve(o) ==
  /\ ops[o].pc = "sw_meta"
  /\ \E fetchOk \in BOOLEAN, pinOk \in BOOLEAN :
       LET a == ops[o].address
           existing == IF pinata.cache[a] # Null THEN pinata.cache[a]
                       ELSE IF fetchOk THEN pinata.hashes[a] ELSE Null
       IN /\ pinata' = IF existing = Null THEN pinata
                       ELSE IF pinOk
                         THEN [pinata EXCEPT !.cache[a] = existing,
                                             !.hashes[a] = existing]
                         ELSE [pinata EXCEPT !.cache[a] = existing]
          /\ ops' = [ops EXCEPT ![o] =
                       IF existing # Null /\ ~pinOk
                         THEN OpThrow(@, "MetadataSaveFailed")
                       ELSE IF wallet = Null
                         THEN OpThrow(@, "NoWalletConnected")
                       ELSE [@ EXCEPT !.pc = "sw_balance"]]
  /\ UNCHANGED <<wallets, wallet, isConnected, lines, calls, started, hook,
                 stored, log, conv, store, form>>

\* getBalance's account_info request settles, lines 659-696
SwBalanceResolve(o) ==
  /\ ops[o].pc = "sw_balance"
  /\ \E ok \in BOOLEAN :
       ops' = [ops EXCEPT ![o] = IF ok THEN OpReturn(@)
                                      ELSE OpThrow(@, "RawError")]
  /\ UNCHANGED <<wallets, wallet, isConnected, lines, calls, started, hook,
                 stored, pinata, log, conv, store, form>>

\* generateWallet lines 418-436: an active wallet is returned as it is;
\* otherwise a generated one becomes active, the list is persisted and the
\* wallet is funded
GenerateWalletBody(o, r) ==
  IF wallet # Null
    THEN /\ ops' = [ops EXCEPT ![o] = OpReturn(r)]
         /\ UNCHANGED <<wallet, stored>>
    ELSE \E a \in GenAddresses \ Range(wallets) :
           /\ wallet' = a
           /\ stored' = wallets
           /\ ops' = [ops EXCEPT ![o] = [r EXCEPT !.pc = "fund",
                                                  !.address = a]]

\* generateWallet(), lines 412-416
StartGenerateWallet(o) ==
  /\ CanStartOp(o)
  /\ LET r == NewOp(o, "generate", Null, FALSE)
     IN IF ~isConnected
          THEN /\ ops' = [ops EXCEPT ![o] = [r EXCEPT !.pc = "gw_connect"]]
               /\ UNCHANGED <<wallet, stored>>
          ELSE GenerateWalletBody(o, r)
  /\ UNCHANGED <<wallets, isConnected, lines, calls, started, hook, pinata,
                 log, conv, store, form>>

GwConnectResolve(o) ==
  /\ ops[o].pc = "gw_connect"
  /\ \E ok \in BOOLEAN :
       IF ok THEN isConnected' = TRUE /\ GenerateWalletBody(o, ops[o])
             ELSE /\ ops' = [ops EXCEPT ![o] =
                              OpThrow(@, "ConnectionFailed")]
                  /\ UNCHANGED <<isConnected, wallet, stored>>
  /\ UNCHANGED <<wallets, lines, calls, started, hook, pinata, log, conv,
                 store, form>>

\* autoConnect lines 218-228: client.connect() settles; on success the first
\* stored record is made active again
AutoConnectResolve ==
  /\ ops["auto"].pc = "ac_connect"
  /\ \E ok \in BOOLEAN :
       /\ isConnected' = (isConnected \/ ok)
       /\ wallet' = IF ok /\ Len(wallets) > 0 THEN wallets[1] ELSE wallet
       /\ ops' = [ops EXCEPT !["auto"] =
                    IF ok THEN OpReturn(@)
                          ELSE OpThrow(@, "ConnectionFailed")]
  /\ UNCHANGED <<wallets, lines, calls, started, hook, stored, pinata, log,
                 conv, store, form>>

WalletResolves(o) ==
  \/ AwConnectResolve(o)
  \/ AwMetaResolve(o)
  \/ FundResolve(o)
  \/ PollResolve(o)
  \/ SleepResolve(o)
  \/ SwConnectResolve(o)
  \/ SwMetaResolve(o)
  \/ SwBalanceResolve(o)
  \/ GwConnectResolve(o)

WalletNext ==
  \/ \E o \in OpSlots, in \in AddInputs : StartAddWallet(o, in)
  \/ \E o \in OpSlots, a \in {AddrA, AddrB} : StartSwitchWallet(o, a)
  \/ \E o \in OpSlots : StartGenerateWallet(o)
  \/ \E o \in OpSlots : WalletResolves(o)
  \/ AutoConnectResolve
  \/ \E a \in WalletAddresses : RemoveWallet(a)

WalletSpec == WalletInit /\ [][WalletNext]_vars

\* imports, switches and removals: the wallet operations without funding
ImportNext ==
  \/ \E o \in OpSlots, in \in {i \in AddInputs : i.import} :
       StartAddWallet(o, in)
  \/ \E o \in OpSlots : AwConnectResolve(o)
  \/ \E o \in OpSlots : AwMetaResolve(o)
  \/ \E o \in OpSlots, a \in {AddrA, AddrB} : StartSwitchWallet(o, a)
  \/ \E o \in OpSlots : SwConnectResolve(o)
  \/ \E o \in OpSlots : SwMetaResolve(o)
  \/ \E o \in OpSlots : SwBalanceResolve(o)
  \/ AutoConnectResolve
  \/ \E a \in WalletAddresses : RemoveWallet(a)

ImportSpec == WalletInit /\ [][ImportNext]_vars

\* addWallet() generating a wallet, with removeWallet calls in between
FundingNext ==
  \/ StartAddWallet("o1", [import |-> FALSE, address |-> Null])
  \/ AwConnectResolve("o1")
  \/ AwMetaResolve("o1")
  \/ FundResolve("o1")
  \/ PollResolve("o1")
  \/ SleepResolve("o1")
  \/ AutoConnectResolve
  \/ \E a \in WalletAddresses : RemoveWallet(a)

\* every request of the funding wait is answered or times out in the
\* client, and the timer of line 406 fires
FundingFairness ==
  /\ WF_vars(PollResolve("o1"))
  /\ WF_vars(SleepResolve("o1"))

FundingSpec == WalletInit /\ [][FundingNext]_vars /\ FundingFairness

\* ------------------------------------------------- the store useXRPL
\* no service exists before the store's connect(): its fields hold what
\* their declarations give them (lines 206-208) and nothing is in flight
StoreInit ==
  /\ stored \in StoredWalletLists
  /\ wallets = <<>>
  /\ wallet = Null
  /\ isConnected = FALSE
  /\ lines = {}
  /\ calls = [c \in Slots |-> Idle]
  /\ started = 0
  /\ hook = HookInitial
  /\ pinata = PinataInitial([a \in WalletAddresses |->
                               IF a \in Range(stored)
                                 THEN [name |-> "Alice"] ELSE Null])
  /\ log = {}
  /\ ops = [o \in AllOps |-> OpIdle]
  /\ conv = NoConversion
  /\ store = StoreInitial
  /\ form = FormIdle

\* the invocations waiting for client.connect() of line 358
ConnectPcs ==
  {"ac_connect", "aw_connect", "sw_connect", "gw_connect", "sc_connect"}

ConnectsInFlight == {o \in AllOps : ops[o].pc \in ConnectPcs}

\* the store has run the code that follows its awaited service call
Continued(o) == ops[o].n = store.settled[o]

\* connect(), lines 41-43: new XRPLService() loads the stored list,
\* activates its first record and starts autoConnect, whose connect() calls
\* client.connect(); service.connect() then finds isConnected false and
\* calls client.connect() as well
StoreConnect ==
  /\ ~store.xrplService
  /\ \A o \in AllOps : ops[o].pc = "idle"
  /\ wallets' = stored
  /\ wallet' = IF Len(stored) > 0 THEN stored[1] ELSE Null
  /\ ops' = [ops EXCEPT !["auto"] = [OpIdle EXCEPT !.kind = "auto",
                                                   !.pc = "ac_connect"],
                        !["o1"] = [OpIdle EXCEPT !.kind = "connect",
                                                 !.pc = "sc_connect"]]
  /\ UNCHANGED <<isConnected, lines, calls, started, hook, stored, pinata,
                 log, conv, store, form>>

\* service.connect() settles, lines 43-45: the store keeps the service and
\* the address of its active wallet; a rejection leaves the store as it was
StoreConnectResolve ==
  /\ ops["o1"].pc = "sc_connect"
  /\ \E ok \in BOOLEAN :
       /\ isConnected' = (isConnected \/ ok)
       /\ ops' = [ops EXCEPT !["o1"] =
                    IF ok THEN OpReturn(@)
                          ELSE OpThrow(@, "ConnectionFailed")]
       /\ store' = IF ok THEN [store EXCEPT !.xrplService = TRUE,
                                            !.isConnected = TRUE,
                                            !.walletAddress = wallet]
                         ELSE store
  /\ UNCHANGED <<wallets, wallet, lines, calls, started, hook, stored,
                 pinata, log, conv, form>>

\* addWallet(name, secretKey), lines 59-65, up to its await
StoreAddWallet(o, in) ==
  /\ store.xrplService
  /\ Continued(o)
  /\ StartAddWallet(o, in)

\* switchWallet(address), lines 70-76, up to its await
StoreSwitchWallet(o, address) ==
  /\ store.xrplService
  /\ Continued(o)
  /\ StartSwitchWallet(o, address)

\* lines 66 and 77: the awaited service call has settled; set() runs when it
\* resolved, and a rejection passes to the caller with the store unchanged
StoreContinue(o) ==
  /\ ops[o].kind \in {"add", "switch"}
  /\ ops[o].pc = "done"
  /\ ~Continued(o)
  /\ store' = [store EXCEPT
                 !.settled[o] = ops[o].n,
                 !.walletAddress = IF ops[o].outcome.thrown THEN @
                                   ELSE ops[o].address]
  /\ UNCHANGED <<wallets, wallet, isConnected, lines, calls, started, hook,
                 stored, pinata, log, ops, conv, form>>

\* removeWallet(address), lines 81-93: the service's removeWallet has no
\* await, and the store reads getWalletAddress() when it returns
StoreRemoveWallet(address) ==
  /\ store.xrplService
  /\ \E i \in 1..Len(wallets) :
       /\ wallets[i] = address
       /\ \A j \in 1..(i - 1) : wallets[j] # address
       /\ wallets' = RemoveAt(wallets, i)
  /\ stored' = wallets'
  /\ wallet' = IF wallet = address
                 THEN PromoteFirstRemaining(wallets')
                 ELSE wallet
  /\ store' = [store EXCEPT !.walletAddress = wallet']
  /\ UNCHANGED <<isConnected, lines, calls, started, hook, pinata, log, ops,
                 conv, form>>

StoreNext ==
  \/ StoreConnect
  \/ StoreConnectResolve
  \/ AutoConnectResolve
  \/ \E o \in OpSlots, in \in {i \in AddInputs : i.import} :
       StoreAddWallet(o, in)
  \/ \E o \in OpSlots : AwMetaResolve(o)
  \/ \E o \in OpSlots, a \in {AddrA, AddrB} : StoreSwitchWallet(o, a)
  \/ \E o \in OpSlots : SwMetaResolve(o)
  \/ \E o \in OpSlots : SwBalanceResolve(o)
  \/ \E o \in OpSlots : StoreContinue(o)
  \/ \E a \in WalletAddresses : StoreRemoveWallet(a)

StoreSpec == StoreInit /\ [][StoreNext]_vars

\* ----------------------------------------------------- PinataService calls
MaxPinataCalls == 3

PinataAddresses == {AddrA, AddrB}

\* the hash map an earlier session can have left in localStorage; a content
\* hash is identified with the record pinned under it
HashMaps ==
  {h \in [WalletAddresses -> Metadata \cup {Null}] : h[AddrG] = Null}

PinataInit ==
  /\ wallets = <<>>
  /\ wallet = Null
  /\ isConnected = FALSE
  /\ lines = {}
  /\ calls = [c \in Slots |-> Idle]
  /\ started = 0
  /\ hook = HookInitial
  /\ stored = <<>>
  /\ pinata \in {PinataInitial(h) : h \in HashMaps}
  /\ log = {}
  /\ ops = [o \in AllOps |-> OpIdle]
  /\ conv = NoConversion
  /\ store = StoreInitial
  /\ form = FormIdle

PinataFrame ==
  UNCHANGED <<wallets, wallet, isConnected, lines, calls, started, hook,
              stored, log, ops, conv, store, form>>

CanCallPinata ==
  /\ pinata.call.pc \in {"idle", "done"}
  /\ pinata.calls < MaxPinataCalls

PinataCall(p, op, address, meta) ==
  [p EXCEPT !.calls = @ + 1,
            !.call = [PinataIdle EXCEPT
                        !.op = op, !.address = address, !.meta = meta,
                        !.cached = p.cache[address] # Null,
                        !.hashed = p.hashes[address] # Null]]

PinataDone(p, outcome) ==
  [p EXCEPT !.call.pc = "done", !.call.outcome = outcome]

FetchFailureRethrown(p) == PinataDone(p, Rejected)

\* getAccountMetadata lines 99-102: the caught error becomes null
FetchFailure(p) == PinataDone(p, Resolved(Null))

MetadataNotDefaulted(address, meta) == meta

\* saveAccountMetadata lines 60-63: the name defaults to a label made from
\* the address
MetadataToSave(address, meta) ==
  IF meta.name = "" THEN [name |-> "Account " \o address.id] ELSE meta

\* getAccountMetadata(address), lines 81-98: a cache hit returns at once; a
\* stored hash is fetched; no stored hash gives null
StartGetAccountMetadata(address) ==
  /\ CanCallPinata
  /\ pinata' =
       LET p == PinataCall(pinata, "get", address, Null)
       IN IF pinata.cache[address] # Null
            THEN PinataDone(p, Resolved(pinata.cache[address]))
            ELSE IF pinata.hashes[address] # Null
                   THEN [p EXCEPT !.call.pc = "fetch", !.call.fetches = 1]
                   ELSE PinataDone(p, Resolved(Null))
  /\ PinataFrame

\* getJSONFromIPFS settles, lines 91-102: the fetched record is cached and
\* returned; a failed fetch is logged
GetFetchResolve ==
  /\ pinata.call.op = "get" /\ pinata.call.pc = "fetch"
  /\ \E ok \in BOOLEAN :
       pinata' =
         LET a == pinata.call.address
             content == pinata.hashes[a]
         IN IF ok /\ content # Null
              THEN PinataDone([pinata EXCEPT !.cache[a] = content],
                              Resolved(content))
              ELSE FetchFailure([pinata EXCEPT !.call.failed = TRUE])
  /\ PinataFrame

\* saveAccountMetadata(address, metadata), lines 58-65: the record is pinned
StartSaveAccountMetadata(address, meta) ==
  /\ CanCallPinata
  /\ pinata' = [PinataCall(pinata, "save", address, meta)
                  EXCEPT !.call.pc = "pin"]
  /\ PinataFrame

\* the pin request settles, lines 65-78: on success the cache entry and the
\* stored hash are replaced; a failure is rethrown
SavePinResolve ==
  /\ pinata.call.op = "save" /\ pinata.call.pc = "pin"
  /\ \E ok \in BOOLEAN :
       pinata' =
         LET a == pinata.call.address
             m == MetadataToSave(a, pinata.call.meta)
         IN IF ok
              THEN PinataDone([pinata EXCEPT !.cache[a] = m,
                                             !.hashes[a] = m],
                              Resolved(Null))
              ELSE PinataDone([pinata EXCEPT !.call.failed = TRUE], Rejected)
  /\ PinataFrame

PinataNext ==
  \/ \E a \in PinataAddresses : StartGetAccountMetadata(a)
  \/ GetFetchResolve
  \/ \E a \in PinataAddresses, m \in Metadata :
       StartSaveAccountMetadata(a, m)
  \/ SavePinResolve

PinataSpec == PinataInit /\ [][PinataNext]_vars

\* ------------------------------------------------- native-amount conversion
\* parseFloat(amount) and amountInXRP * 1000000 are IEEE-754 binary64
\* operations.  Their operands exceed 32 bits, so naturals are written as
\* sequences of decimal digits, least significant first, without leading
\* zeros; zero is the empty sequence.
Norm(x) ==
  LET nz == {i \in 1..Len(x) : x[i] # 0}
  IN IF nz = {} THEN <<>>
     ELSE SubSeq(x, 1, CHOOSE i \in nz : \A j \in nz : j <= i)

Reverse(d) == [i \in 1..Len(d) |-> d[Len(d) + 1 - i]]

RECURSIVE DigitsOf(_)
DigitsOf(n) == IF n = 0 THEN <<>> ELSE <<n % 10>> \o DigitsOf(n \div 10)

RECURSIVE ToInt(_)
ToInt(x) == IF Len(x) = 0 THEN 0 ELSE Head(x) + 10 * ToInt(Tail(x))

\* 2 * x: the carry into a digit is 1 exactly when the digit below is >= 5
Twice(x) ==
  Norm([i \in 1..(Len(x) + 1) |->
          ((IF i <= Len(x) THEN 2 * x[i] ELSE 0)
             + (IF i > 1 /\ x[i - 1] >= 5 THEN 1 ELSE 0)) % 10])

\* floor(x / 2): an odd digit above hands 10 down
HalfOf(x) ==
  Norm([i \in 1..Len(x) |->
          (x[i] + (IF i < Len(x) /\ x[i + 1] % 2 = 1 THEN 10 ELSE 0)) \div 2])

Twice8(x) == Twice(Twice(Twice(Twice(Twice(Twice(Twice(Twice(x))))))))

HalfOf8(x) ==
  HalfOf(HalfOf(HalfOf(HalfOf(HalfOf(HalfOf(HalfOf(HalfOf(x))))))))

IsOdd(x) == Len(x) > 0 /\ x[1] % 2 = 1

AddOne(x) ==
  LET below == {i \in 1..Len(x) : x[i] # 9}
  IN IF below = {} THEN [i \in 1..(Len(x) + 1) |-> IF i > Len(x) THEN 1 ELSE 0]
     ELSE LET j == CHOOSE i \in below : \A h \in below : i <= h
          IN [i \in 1..Len(x) |->
                IF i < j THEN 0 ELSE IF i = j THEN x[i] + 1 ELSE x[i]]

Less(x, y) ==
  IF Len(x) # Len(y) THEN Len(x) < Len(y)
  ELSE \E i \in 1..Len(x) :
         x[i] < y[i] /\ \A j \in (i + 1)..Len(x) : x[j] = y[j]

\* x * 10^k
Shift10(x, k) == IF Len(x) = 0 THEN <<>> ELSE [i \in 1..k |-> 0] \o x

\* floor(x / 10^k) and x mod 10^k
Div10(x, k) == IF Len(x) <= k THEN <<>> ELSE SubSeq(x, k + 1, Len(x))
Mod10(x, k) == Norm(IF Len(x) <= k THEN x ELSE SubSeq(x, 1, k))

\* binary64: 53 significant bits
\* 2^52 = 4503599627370496 and 2^53
Two52 == Reverse(<<4, 5, 0, 3, 5, 9, 9, 6, 2, 7, 3, 7, 0, 4, 9, 6>>)
Two53 == Twice(Two52)

\* round to nearest, ties to even: q is the kept part, half says the first
\* dropped bit is set, sticky that a later dropped bit is set
RoundNearestEven(q, half, sticky) ==
  IF half /\ (sticky \/ IsOdd(q)) THEN AddOne(q) ELSE q

\* the decimal numeral whole.frac as the natural N and the exponent K of
\* N / 10^K
Numeral(amount) ==
  [n |-> Norm(Reverse(amount.frac) \o DigitsOf(amount.whole)),
   k |-> Len(amount.frac)]

RECURSIVE ScaleUp(_, _, _)
\* doubles num until it reaches low, counting the doublings
ScaleUp(num, low, s) ==
  IF Less(Twice8(num), low) THEN ScaleUp(Twice8(num), low, s + 8)
  ELSE IF Less(num, low) THEN ScaleUp(Twice(num), low, s + 1)
  ELSE [num |-> num, s |-> s]

\* parseFloat(amount), line 615: the double nearest to the numeral, as
\* m * 2^(-s) with 2^52 <= m <= 2^53 (numerals below 2^52)
ParseFloat(amount) ==
  LET d == Numeral(amount)
  IN IF Len(d.n) = 0 THEN [m |-> <<>>, s |-> 0]
     ELSE LET u == ScaleUp(d.n, Shift10(Two52, d.k), 0)
              rest == Mod10(u.num, d.k)
              tenK == Shift10(<<1>>, d.k)
              reachesHalf == ~Less(Twice(rest), tenK)
              exceedsHalf == Less(tenK, Twice(rest))
          IN [m |-> RoundNearestEven(Div10(u.num, d.k), reachesHalf,
                                     exceedsHalf),
              s |-> u.s]

RECURSIVE Reduce(_, _, _, _, _)
\* halves p until it is below top, keeping what was dropped
Reduce(p, top, t, half, sticky) ==
  LET p1 == HalfOf(p)
      p2 == HalfOf(p1)
      p3 == HalfOf(p2)
  IN IF Less(p, top)
       THEN [q |-> p, t |-> t, half |-> half, sticky |-> sticky]
     ELSE IF ~Less(p3, top)
       THEN Reduce(HalfOf(p3), top, t + 4, IsOdd(p3),
                   sticky \/ half \/ IsOdd(p) \/ IsOdd(p1) \/ IsOdd(p2))
     ELSE Reduce(p1, top, t + 1, IsOdd(p), sticky \/ half)

\* amountInXRP * 1000000, line 616: the double nearest to the exact product,
\* as m * 2^(-s) with s possibly negative
TimesMillion(x) ==
  LET r == Reduce(Shift10(x.m, 6), Two53, 0, FALSE, FALSE)
  IN [m |-> RoundNearestEven(r.q, r.half, r.sticky), s |-> x.s - r.t]

RECURSIVE FloorOf(_, _)
\* Math.floor of m * 2^(-s)
FloorOf(m, s) ==
  IF s = 0 \/ Len(m) = 0 THEN m
  ELSE IF s >= 8 THEN FloorOf(HalfOf8(m), s - 8)
  ELSE IF s > 0 THEN FloorOf(HalfOf(m), s - 1)
  ELSE FloorOf(Twice(m), s + 1)

\* a double that is no result yet
NoDouble == [m |-> <<>>, s |-> 0]

\* the numeral times 1,000,000, truncated toward zero
ExactDrops(amount) ==
  LET d == Numeral(amount)
  IN ToInt(IF d.k <= 6 THEN Shift10(d.n, 6 - d.k) ELSE Div10(d.n, d.k - 6))

MaxWhole == 9

\* the amount strings: every whole.f with one fractional digit, and three
\* longer numerals
Amounts ==
  {[whole |-> w, frac |-> <<f>>] : w \in 0..MaxWhole, f \in 0..9}
    \cup {[whole |-> 1, frac |-> <<2, 3, 4, 5, 6, 7>>],
          [whole |-> 1, frac |-> <<2, 3, 4, 5, 6, 7, 5>>],
          [whole |-> 0, frac |-> [i \in 1..19 |-> 9]]}

ConversionInit ==
  /\ wallets = <<>>
  /\ wallet = Null
  /\ isConnected = FALSE
  /\ lines = {}
  /\ calls = [c \in Slots |-> Idle]
  /\ started = 0
  /\ hook = HookInitial
  /\ stored = <<>>
  /\ pinata = PinataInitial(NoHashes)
  /\ log = {}
  /\ ops = [o \in AllOps |-> OpIdle]
  /\ conv \in {[NoConversion EXCEPT !.pc = "amount", !.amount = a] :
                 a \in Amounts}
  /\ store = StoreInitial
  /\ form = FormIdle

ConversionFrame ==
  UNCHANGED <<wallets, wallet, isConnected, lines, calls, started, hook,
              stored, pinata, log, ops, store, form>>

\* line 615: const amountInXRP = parseFloat(amount)
ConvertParse ==
  /\ conv.pc = "amount"
  /\ conv' = [conv EXCEPT !.pc = "xrp", !.value = ParseFloat(conv.amount)]
  /\ ConversionFrame

\* line 616: amountInXRP * 1000000
ConvertMultiply ==
  /\ conv.pc = "xrp"
  /\ conv' = [conv EXCEPT !.pc = "product", !.value = TimesMillion(@)]
  /\ ConversionFrame

\* line 616: Math.floor(...).toString()
ConvertFloor ==
  /\ conv.pc = "product"
  /\ conv' = [conv EXCEPT !.pc = "drops", !.value = NoDouble,
                          !.drops = ToInt(FloorOf(conv.value.m, conv.value.s))]
  /\ ConversionFrame

ConversionNext == ConvertParse \/ ConvertMultiply \/ ConvertFloor

ConversionSpec == ConversionInit /\ [][ConversionNext]_vars

\* ------------------------------- WalletConnect: handleConnectWithSecretKey
MaxImports == 2

\* the secretKey field, by the address Wallet.fromSeed derives from it: Null
\* stands for a secret fromSeed rejects, EmptyDest for an empty field
ImportSecrets == HookAddresses \cup {Null, EmptyDest}

HandlerFrame ==
  UNCHANGED <<wallets, wallet, isConnected, lines, calls, started, stored,
              log, ops, conv, store>>

\* the hook's addWallet of the handler's render (useXRPL.ts lines 59-90):
\* nothing without that render's client or when fromSeed throws
ImportAdds(r) == r.client /\ r.secret # Null

ImportAddWallet(h, r) ==
  IF ImportAdds(r)
    THEN BalanceEffect(h, [h EXCEPT !.wallets = Append(@, r.secret),
                                    !.walletAddress = r.secret])
    ELSE h

\* lines 482-491: after addWallet, the metadata is saved when the render's
\* walletAddress is set; otherwise the handler is finished (lines 506-515)
ImportAfterAdd(r) ==
  LET q == [r EXCEPT !.imported = IF ImportAdds(r) THEN r.secret ELSE Null]
  IN IF q.key # Null THEN [q EXCEPT !.pc = "hi_save"]
                     ELSE [q EXCEPT !.pc = "done"]

\* handleConnectWithSecretKey, lines 467-491, up to its first await
StartImport(secret, name) ==
  /\ form.import.pc \in {"idle", "done"}
  /\ form.import.imports < MaxImports
  /\ Len(hook.wallets) < MaxHookWallets
  /\ LET r == [ImportIdle EXCEPT !.key = hook.walletAddress,
                                 !.address = hook.walletAddress,
                                 !.name = name, !.secret = secret,
                                 !.seen = hook.wallets,
                                 !.client = hook.client,
                                 !.imports = form.import.imports + 1]
     IN IF secret = EmptyDest
          THEN /\ form' = [form EXCEPT !.import = [r EXCEPT !.pc = "done"]]
               /\ hook' = hook
        ELSE IF ~hook.isConnected
          THEN /\ form' = [form EXCEPT
                             !.import = [r EXCEPT !.pc = "hi_connect"]]
               /\ hook' = hook
        ELSE /\ hook' = ImportAddWallet(hook, r)
             /\ form' = [form EXCEPT !.import = ImportAfterAdd(r)]
  /\ UNCHANGED pinata
  /\ HandlerFrame

\* the awaited connect() settles (useXRPL.ts lines 13-31) and the handler
\* goes on with the addWallet of its own render
ImportConnectResolve ==
  /\ form.import.pc = "hi_connect"
  /\ \E ok \in BOOLEAN :
       LET r == form.import
           h == IF ok
                  THEN BalanceEffect(hook,
                         [hook EXCEPT
                            !.client = TRUE, !.isConnected = TRUE,
                            !.walletAddress =
                               IF Len(r.seen) > 0 THEN r.seen[1] ELSE @])
                  ELSE hook
       IN /\ hook' = ImportAddWallet(h, r)
          /\ form' = [form EXCEPT !.import = ImportAfterAdd(r)]
  /\ UNCHANGED pinata
  /\ HandlerFrame

\* pinataService.saveAccountMetadata(walletAddress, employeeMetadata)
\* settles (pinata.ts lines 196-253): the record is cached and its hash
\* stored under the key; a failure ends the handler in its catch
ImportSaveResolve ==
  /\ form.import.pc = "hi_save"
  /\ \E ok \in BOOLEAN :
       LET r == form.import
           m == MetadataToSave(r.key, [name |-> r.name])
       IN /\ pinata' = IF ok THEN [pinata EXCEPT !.cache[r.key] = m,
                                                 !.hashes[r.key] = m]
                             ELSE pinata
          /\ form' = [form EXCEPT !.import.pc = IF ok THEN "hi_list"
                                                      ELSE "done"]
  /\ hook' = hook
  /\ HandlerFrame

\* lines 494-503: getAllAccounts() settles and the handler finishes
ImportListResolve ==
  /\ form.import.pc = "hi_list"
  /\ form' = [form EXCEPT !.import.pc = "done"]
  /\ UNCHANGED <<hook, pinata>>
  /\ HandlerFrame

EmployeeNext ==
  \/ HookConnect
  \/ HookConnectResolve
  \/ \E a \in HookAddresses : HookSwitchWallet(a)
  \/ \E a \in HookAddresses : HookRemoveWallet(a)
  \/ HookBalanceResolve
  \/ \E secret \in ImportSecrets, name \in MetaNames :
       StartImport(secret, name)
  \/ ImportConnectResolve
  \/ ImportSaveResolve
  \/ ImportListResolve

EmployeeSpec == HookInit /\ [][EmployeeNext]_vars

\* ------------------------------------------- SendPayment: handleSubmit
MaxSubmits == 2

\* the selected employee's address: none, a malformed one, a classic one
Employees == {Null, ShortDest, AddrR}

\* the handler stops: a throw outside the try block (lines 98-108) rejects
\* its promise and skips the finally of line 136
SubmitRejects(r) == [r EXCEPT !.pc = "done", !.outcome = "rejected"]

\* lines 132-137: catch sets the error, finally resets isLoading
SubmitFails(r) ==
  [r EXCEPT !.pc = "done", !.outcome = "error", !.isLoading = FALSE]

\* lines 117-122 and 136-137
SubmitSucceeds(r) ==
  [r EXCEPT !.pc = "done", !.outcome = "success", !.isLoading = FALSE]

\* lines 111-118: both fields filled and an address of 34 characters
\* starting with 'r'
SubmitValid(r) ==
  /\ r.employee # Null /\ r.amount
  /\ r.employee.first = "r" /\ r.employee.len = 34

\* the sendPayment of the handler's render refuses without that render's
\* client, active address or seed (useXRPL.ts lines 118-126)
SubmitRefused(r) ==
  \/ ~r.client
  \/ r.walletAddress = Null
  \/ r.walletAddress \notin Range(r.seen)

\* lines 106-116 reach the await of sendPayment
SubmitSends(r) ==
  r.walletAddress # Null /\ SubmitValid(r) /\ ~SubmitRefused(r)

\* handleSubmit from line 106 to its next await or its end
SubmitAfterConnect(r) ==
  IF r.walletAddress = Null THEN SubmitRejects(r)
  ELSE IF ~SubmitValid(r) \/ SubmitRefused(r) THEN SubmitFails(r)
  ELSE [r EXCEPT !.pc = "hs_send"]

\* the hook after the handler's call of sendPayment
SubmitHook(h, r) ==
  IF SubmitSends(r)
    THEN [h EXCEPT !.sends = @ + 1,
                   !.send = [pc |-> "autofill", addr |-> r.walletAddress,
                             result |-> "none"]]
    ELSE h

\* handleSubmit, lines 89-104, up to its first await; the button is
\* disabled while isLoading (line 211)
StartSubmit(employee, amount) ==
  /\ form.submit.pc \in {"idle", "done"}
  /\ ~form.submit.isLoading
  /\ form.submit.submits < MaxSubmits
  /\ hook.send.pc = "idle"
  /\ hook.sends < MaxHookSends
  /\ LET r == [SubmitIdle EXCEPT !.isLoading = TRUE,
                                 !.seen = hook.wallets,
                                 !.client = hook.client,
                                 !.walletAddress = hook.walletAddress,
                                 !.employee = employee, !.amount = amount,
                                 !.submits = form.submit.submits + 1]
     IN IF ~hook.isConnected
          THEN /\ form' = [form EXCEPT
                             !.submit = [r EXCEPT !.pc = "hs_connect"]]
               /\ hook' = hook
          ELSE /\ form' = [form EXCEPT !.submit = SubmitAfterConnect(r)]
               /\ hook' = SubmitHook(hook, r)
  /\ UNCHANGED pinata
  /\ HandlerFrame

\* the awaited connect() settles (useXRPL.ts lines 13-31): it returns true
\* or false and never rejects
SubmitConnectResolve ==
  /\ form.submit.pc = "hs_connect"
  /\ \E ok \in BOOLEAN :
       LET r == form.submit
           h == IF ok
                  THEN BalanceEffect(hook,
                         [hook EXCEPT
                            !.client = TRUE, !.isConnected = TRUE,
                            !.walletAddress =
                               IF Len(r.seen) > 0 THEN r.seen[1] ELSE @])
                  ELSE hook
       IN /\ hook' = SubmitHook(h, r)
          /\ form' = [form EXCEPT !.submit = SubmitAfterConnect(r)]
  /\ UNCHANGED pinata
  /\ HandlerFrame

\* the awaited sendPayment has returned its result, lines 115-137
SubmitSendContinue ==
  /\ form.submit.pc = "hs_send"
  /\ hook.send.pc = "idle"
  /\ form' = [form EXCEPT !.submit =
                IF hook.send.result = "success" THEN SubmitSucceeds(@)
                                                ELSE SubmitFails(@)]
  /\ UNCHANGED <<hook, pinata>>
  /\ HandlerFrame

FormNext ==
  \/ HookConnect
  \/ HookConnectResolve
  \/ \E a \in HookAddresses : HookAddWallet(a)
  \/ \E a \in HookAddresses : HookSwitchWallet(a)
  \/ HookBalanceResolve
  \/ \E employee \in Employees, amount \in BOOLEAN :
       StartSubmit(employee, amount)
  \/ SubmitConnectResolve
  \/ HookSendAutofillResolve
  \/ HookSendSubmitResolve
  \/ HookSendBalanceResolve
  \/ SubmitSendContinue

\* every request the handler waits for is answered or fails in the client,
\* and the code after an await runs once its promise has settled
FormFairness ==
  /\ WF_vars(SubmitConnectResolve)
  /\ WF_vars(HookSendAutofillResolve)
  /\ WF_vars(HookSendSubmitResolve)
  /\ WF_vars(HookSendBalanceResolve)
  /\ WF_vars(SubmitSendContinue)

FormSpec == HookInit /\ [][FormNext]_vars /\ FormFairness

\* ------------------------------------------------------------------ claims
Done(c) == calls[c].pc = "done"

\* a signed transaction has been handed to submitAndWait and is not final yet
InFlight(c) == calls[c].pc \in {"submit", "st_as_submit", "st_ts_submit"}

InvalidInput(c) ==
  calls[c].amount <= 0 \/ ~IsValidAddress(calls[c].dest)

\* C1: a sendPayment call whose amount is <= 0 or whose destination fails the
\* syntactic check ends with InvalidInput and makes no gateway call.
C1_InvalidInputFailsFast ==
  \A c \in Slots :
    (calls[c].kind = "pay" /\ InvalidInput(c)) =>
      /\ calls[c].gw = 0
      /\ (Done(c) /\ calls[c].outcome.reason # "NoWalletConnected")
           => calls[c].outcome.reason = "InvalidInput"

\* C2: an issued-currency sendPayment submits its Payment only after
\* checkTrustline(destination) answered exists = true in the same invocation,
\* hence never for a recipient without the trust line.
C2_SubmitOnlyAfterRecipientTrust ==
  \A c \in Slots :
    (calls[c].kind = "pay" /\ calls[c].paySubmits > 0) =>
      /\ calls[c].rcptExists = "true"
      /\ calls[c].dest \in lines

C2_Witness ==
  \E c \in Slots :
    /\ calls[c].kind = "pay" /\ Done(c)
    /\ calls[c].dest \notin lines
    /\ calls[c].rcptExists = "false"
    /\ calls[c].paySubmits = 0
    /\ calls[c].outcome.reason = "RecipientTrustlineMissing"

\* C3: with the recipient trust line absent the failure is
\* RecipientTrustlineMissing, marked recoverable, and carries the recovery
\* payload (issuer, currency, limit, destination); no other failure carries one.
C3_RecipientMissingIsRecoverable ==
  \A c \in Slots :
    (calls[c].kind = "pay" /\ Done(c)) =>
      IF calls[c].rcptExists = "false"
        THEN /\ calls[c].outcome.reason = "RecipientTrustlineMissing"
             /\ calls[c].outcome.recoverable
             /\ calls[c].outcome.payload =
                  {GenerateTrustlineInstructions(calls[c].dest)}
        ELSE calls[c].outcome.payload = {}

\* C4: in native mode the outcome is Success exactly when the result code is
\* tesSUCCESS; any other code gives a LedgerRejected failure naming the code.
C4_NativeSuccessIffTesSuccess ==
  \A c \in Slots :
    (calls[c].kind = "xrp" /\ Done(c) /\ calls[c].code # "none") =>
      /\ calls[c].outcome.reason = "Success" <=> calls[c].code = "tesSUCCESS"
      /\ calls[c].code # "tesSUCCESS" =>
           /\ calls[c].outcome.reason = "LedgerRejected"
           /\ calls[c].outcome.code = calls[c].code

\* C5: when the fee query fails the payment is still prepared, with the
\* fallback fee of 10 drops in its Fee field, and submitted.
C5_FeeFailureFallsBack ==
  \A c \in Slots :
    calls[c].feeFailed =>
      /\ calls[c].pc = "submit" => calls[c].txFee = DefaultFeeDrops
      /\ Done(c) => calls[c].paySubmits = 1

\* C6: every submitted transaction (Payment, TrustSet, AccountSet) carries the
\* fee obtained from the fee query of its call and a LastLedgerSequence of the
\* queried current ledger index plus 20.
C6_EverySubmissionFeeAndHorizon ==
  \A c \in Slots :
    InFlight(c) =>
      /\ calls[c].fee # 0
      /\ calls[c].txFee = calls[c].fee
      /\ calls[c].ledgerQ # 0
      /\ calls[c].txLLS = calls[c].ledgerQ + LedgerOffset

\* C7: no two ledger-mutating submissions of the same sender address are in
\* flight at the same time.
C7_SerializedPerSender ==
  \A c, d \in Slots :
    (c # d /\ InFlight(c) /\ InFlight(d)) => calls[c].acct # calls[d].acct

\* C8: one payment invocation submits its Payment at most once, and exactly
\* once when it ends on a ledger result code or on an error raised after the
\* submission; no result code or exception leads to a second submission.
C8_SinglePaymentSubmission ==
  \A c \in Slots :
    /\ calls[c].paySubmits <= 1
    /\ calls[c].pc \in {"submit", "re_sender", "re_rcpt"} => calls[c].paySubmits = 1
    /\ (Done(c) /\ calls[c].code # "none") => calls[c].paySubmits = 1

C8_Witness ==
  \E c \in Slots :
    /\ calls[c].kind = "pay" /\ Done(c)
    /\ calls[c].code = "tecUNFUNDED_PAYMENT"
    /\ calls[c].outcome.thrown
    /\ calls[c].paySubmits = 1

\* C9: after tecPATH_DRY both trust lines (the sender's and the recipient's)
\* are re-checked; a missing sender line gives the sender failure, else a
\* missing recipient line gives the recipient failure, and only with both
\* present is the failure NoLiquidityPath.
C9_PathDryClassification ==
  \A c \in Slots :
    (calls[c].kind = "pay" /\ Done(c) /\ calls[c].code = "tecPATH_DRY") =>
      /\ calls[c].reSenderAddr = calls[c].acct
      /\ calls[c].reSender # "unknown" /\ calls[c].reRcpt # "unknown"
      /\ calls[c].reSender = "false" =>
           calls[c].outcome.reason = "SenderTrustlineNotSetUp"
      /\ (calls[c].reSender = "true" /\ calls[c].reRcpt = "false") =>
           calls[c].outcome.reason = "RecipientTrustlineNotSetUp"
      /\ (calls[c].reSender = "true" /\ calls[c].reRcpt = "true") =>
           calls[c].outcome.reason = "NoLiquidityPath"

\* C10: a submitted issued-currency payment with result tesSUCCESS returns
\* success, and with any code other than tesSUCCESS and tecPATH_DRY fails with
\* 'Payment failed with code: <code>' naming that code.
C10_IssuedResultMapping ==
  \A c \in Slots :
    (calls[c].kind = "pay" /\ Done(c) /\ calls[c].code # "none") =>
      /\ calls[c].code = "tesSUCCESS" =>
           /\ calls[c].outcome.reason = "Success"
           /\ ~calls[c].outcome.thrown
      /\ calls[c].code \notin {"tesSUCCESS", "tecPATH_DRY"} =>
           /\ calls[c].outcome.reason = "PaymentFailedWithCode"
           /\ calls[c].outcome.code = calls[c].code
           /\ calls[c].outcome.thrown

C10_Witness ==
  \E c, d \in Slots :
    /\ calls[c].kind = "pay" /\ Done(c)
    /\ calls[c].code = "tesSUCCESS" /\ calls[c].outcome.reason = "Success"
    /\ calls[d].kind = "pay" /\ Done(d)
    /\ calls[d].code = "tecUNFUNDED_PAYMENT"
    /\ calls[d].outcome.reason = "PaymentFailedWithCode"

SetupFailed(c) ==
  calls[c].setupFailed \/ calls[c].stCode \notin {"none", "tesSUCCESS"}

PaymentStarts(c) ==
  /\ started' = started + 1
  /\ calls'[c] # calls[c]
  /\ calls'[c].kind \in {"pay", "xrp"}

\* C12: a payment call made while there is no active wallet fails at once
\* with 'No wallet connected': no gateway call, no submission, and the wallet
\* list, the active wallet, the connection and the ledger are left as they were.
C12_NoWalletNoSideEffects ==
  [][\A c \in Slots :
       (PaymentStarts(c) /\ wallet = Null) =>
         /\ calls'[c].pc = "done"
         /\ calls'[c].outcome.reason = "NoWalletConnected"
         /\ calls'[c].gw = 0 /\ calls'[c].submits = 0
         /\ UNCHANGED <<wallets, wallet, isConnected, lines>>]_vars

C12_Witness ==
  \E c \in Slots :
    /\ calls[c].kind = "pay" /\ Done(c) /\ wallet = Null
    /\ calls[c].outcome.reason = "NoWalletConnected"
    /\ calls[c].outcome.thrown
    /\ calls[c].gw = 0

\* transactions submitted by setupTrustline in this invocation
SetupSubmits(c) == calls[c].submits - calls[c].paySubmits

\* C13: whenever setupTrustline's own check reports the line as existing, it
\* submits no transaction (no AccountSet, no TrustSet) and, called directly,
\* returns the 'already exists' result.
C13_ExistingLineNoSubmission ==
  \A c \in Slots :
    calls[c].senderExists = "true" =>
      /\ SetupSubmits(c) = 0
      /\ calls[c].pc \notin SetupPcs \ {"st_check"}
      /\ calls[c].asCode = "none" /\ calls[c].stCode = "none"
      /\ calls[c].kind = "trust" =>
           /\ Done(c) /\ ~calls[c].outcome.thrown
           /\ calls[c].outcome.reason = "AlreadyExists"

C13_Witness ==
  \E c \in Slots :
    /\ calls[c].kind = "trust" /\ Done(c)
    /\ calls[c].senderExists = "true"
    /\ calls[c].outcome.reason = "AlreadyExists"
    /\ calls[c].submits = 0

\* C14 as stated: two setupTrustline calls in a row for the same account, the
\* first of which established the line, submit exactly one transaction in
\* total, and the second one sees the line and returns 'already exists'.
C14_TwiceSubmitsOnce ==
  \A c \in Slots :
    (calls[c].kind = "trust" /\ calls[c].prevSetup /\ Done(c)) =>
      /\ calls[c].prevSubmits + calls[c].submits = 1
      /\ calls[c].senderExists = "true"
      /\ calls[c].outcome.reason = "AlreadyExists"

\* C14: of two setupTrustline calls in a row for the same account, the first
\* one, which established the line, submitted two transactions (the AccountSet
\* and the TrustSet); the second one, whenever its account_lines request is
\* answered, sees the line, submits nothing and returns 'already exists'.
C14_TwiceSubmitsOneTrustSet ==
  \A c \in Slots :
    (calls[c].kind = "trust" /\ calls[c].prevSetup) =>
      /\ calls[c].prevSubmits = 2
      /\ (calls[c].senderExists # "unknown" /\ ~calls[c].lineHidden) =>
           /\ calls[c].senderExists = "true"
           /\ Done(c) /\ calls[c].outcome.reason = "AlreadyExists"
           /\ calls[c].submits = 0

C14_Witness ==
  \E c \in Slots :
    /\ calls[c].kind = "trust" /\ calls[c].prevSetup /\ Done(c)
    /\ ~calls[c].lineHidden
    /\ calls[c].prevSubmits = 2 /\ calls[c].submits = 0
    /\ calls[c].outcome.reason = "AlreadyExists"

\* C15: a failed AccountSet is reported: setupTrustline does not return
\* normally after an AccountSet whose result code is not tesSUCCESS.
C15_AccountSetFailureReported ==
  [][\A c \in Slots :
       (/\ calls[c].asCode \notin {"none", "tesSUCCESS"}
        /\ calls[c].pc \in SetupPcs
        /\ calls'[c].pc \notin SetupPcs) =>
         (calls'[c].pc = "done" /\ calls'[c].outcome.thrown)]_vars

\* C16: setupTrustline returns success after a TrustSet only when its result
\* code is tesSUCCESS; with any other code it throws 'Trustline setup failed
\* with code: <code>' naming that code.
C16_TrustSetResultMapping ==
  \A c \in Slots :
    (calls[c].kind = "trust" /\ Done(c)) =>
      /\ calls[c].outcome.reason = "TrustlineSuccess" =>
           (calls[c].stCode = "tesSUCCESS" /\ ~calls[c].outcome.thrown)
      /\ calls[c].stCode = "tesSUCCESS" =>
           calls[c].outcome.reason = "TrustlineSuccess"
      /\ calls[c].stCode \notin {"none", "tesSUCCESS"} =>
           /\ calls[c].outcome.thrown
           /\ calls[c].outcome.reason = "TrustlineSetupFailedWithCode"
           /\ calls[c].outcome.code = calls[c].stCode

C16_Witness ==
  \E c, d \in Slots :
    /\ calls[c].kind = "trust" /\ Done(c)
    /\ calls[c].stCode = "tecPATH_DRY" /\ calls[c].outcome.thrown
    /\ calls[d].kind = "trust" /\ Done(d)
    /\ calls[d].stCode = "tesSUCCESS"
    /\ calls[d].outcome.reason = "TrustlineSuccess"

\* C17: checkTrustline never throws: a failed account_lines request gives
\* exists = false, and exists = true is only answered for an account whose
\* line is on the ledger.
C17_CheckTrustlineNeverThrows ==
  \A c \in Slots :
    /\ (calls[c].kind = "check" /\ Done(c)) =>
         /\ ~calls[c].outcome.thrown
         /\ calls[c].outcome.reason \in {"TrustlineExists", "NoTrustline"}
         /\ calls[c].queryFailed => calls[c].outcome.reason = "NoTrustline"
         /\ calls[c].outcome.reason = "TrustlineExists" => calls[c].dest \in lines
    /\ calls[c].rcptExists = "true" => calls[c].dest \in lines
    /\ calls[c].reRcpt = "true" => calls[c].dest \in lines
    /\ calls[c].reSender = "true" => calls[c].reSenderAddr \in lines

C17_Witness ==
  \E c \in Slots :
    /\ calls[c].kind = "check" /\ Done(c)
    /\ calls[c].queryFailed /\ calls[c].dest \in lines
    /\ calls[c].outcome = Returned("NoTrustline", "none")

\* C18: sendPayment does not let a raw network or ledger error escape: what
\* the gateway throws comes back as a typed failure, not as the exception.
C18_NoRawTransportException ==
  \A c \in Slots :
    (calls[c].kind = "pay" /\ Done(c)) =>
      ~(/\ calls[c].outcome.thrown
        /\ calls[c].outcome.reason \in {"TransportError", "ConnectError"})

\* the active wallet's record is taken out of the list in this step
ActiveWalletRemoved ==
  /\ wallet # Null
  /\ Len(wallets') = Len(wallets) - 1
  /\ \A i \in 1..Len(wallets') : wallets'[i] # wallet

HookRemovesActive ==
  /\ Cardinality(Range(hook.wallets)) = Len(hook.wallets)
  /\ hook.walletAddress \in Range(hook.wallets)
  /\ hook.walletAddress \notin Range(hook'.wallets)

\* C20: after the hook's removeWallet removed the active wallet,
\* walletAddress is the address of a record still in the list, or null when
\* the list is empty; it is never the removed address.
C20_HookRemoveLeavesListedWallet ==
  [][HookRemovesActive =>
       /\ hook'.walletAddress # hook.walletAddress
       /\ hook'.wallets # <<>> => hook'.walletAddress \in Range(hook'.wallets)
       /\ hook'.wallets = <<>> => hook'.walletAddress = Null]_vars

\* C28: the Payment of a sendPayment call is signed by the identity named in
\* its Account field, and the TrustSet submitted earlier in the same call was
\* made for that same address, whatever wallet operation ran while the call
\* was suspended.
C28_PaymentSignedBySender ==
  \A c \in Slots :
    (calls[c].kind = "pay" /\ calls[c].pc = "submit") =>
      /\ calls[c].signer = calls[c].acct
      /\ calls[c].stAcct \in {Null, calls[c].acct}

\* a step of the hook's sendPayment
HookSendStep == hook.send.pc # "idle" /\ hook'.send # hook.send

\* C26: no step of a send operation changes the displayed balance; the
\* balance changes only by a read made outside sendPayment.
C26_SendLeavesBalance ==
  [][HookSendStep => hook'.balance = hook.balance]_vars

\* a finished getAccountMetadata call that found no cached record
LookupMissed ==
  /\ pinata.call.op = "get" /\ pinata.call.pc = "done"
  /\ ~pinata.call.cached
  /\ ~pinata.call.hashed \/ pinata.call.failed

\* C27: getAccountMetadata never throws; when no hash is stored for the
\* address, or the fetch of the stored hash fails, it returns null.
C27_LookupMissIsNull ==
  /\ (pinata.call.op = "get" /\ pinata.call.pc = "done")
       => ~pinata.call.outcome.thrown
  /\ LookupMissed => pinata.call.outcome = Resolved(Null)

C27_Witness ==
  /\ LookupMissed
  /\ pinata.call.hashed /\ pinata.call.failed
  /\ pinata.call.outcome = Resolved(Null)

OpDone(o) == ops[o].pc = "done"

Distinct(s) == Cardinality(Range(s)) = Len(s)

C22_UniqueAddresses == Distinct(wallets) /\ Distinct(hook.wallets)

\* C23: no console entry contains the secret of a wallet.
C23_NoSecretLogged == log = {}

\* C29: the active wallet of XRPLService is null or has the address of a
\* record of the wallet set.
C29_ActiveWalletInSet == wallet = Null \/ wallet \in Range(wallets)

\* C30: an addWallet call that throws has not pushed, persisted or activated
\* its wallet.
C30_AddWalletAllOrNothing ==
  \A o \in OpSlots :
    (ops[o].kind = "add" /\ OpDone(o) /\ ops[o].outcome.thrown) =>
      ~ops[o].pushed

Waiting(o) == ops[o].pc \in {"poll", "sleep"}

\* C25: the funding wait issues at most MaxAttempts polls; a poll that shows
\* a balance returns, any error other than 'Account not found' is rethrown
\* at once, only an unsuccessful poll leads to the pause; and every wait
\* ends, with the funding-timed-out error once the attempts are used up.
C25_FundingWaitTerminates ==
  /\ [](\A o \in OpSlots :
          /\ Waiting(o) => ops[o].attempt < MaxAttempts
          /\ ops[o].pc = "sleep" => ops[o].answer \in {"notFound", "noBalance"}
          /\ (OpDone(o) /\ ops[o].answer = "funded")
               => ops[o].outcome = Returned("Done", "none")
          /\ (OpDone(o) /\ ops[o].answer = "error")
               => ops[o].outcome = Thrown("RawError", "none")
          /\ ops[o].outcome.reason = "FundingTimedOut"
               => ops[o].answer \in {"notFound", "noBalance"})
  /\ Waiting("o1") ~> OpDone("o1")

C25_Witness ==
  /\ OpDone("o1")
  /\ ops["o1"].outcome = Thrown("FundingTimedOut", "none")

\* C24: the drops of an amount are the amount times 1,000,000 truncated
\* toward zero: never more than amount x 1,000,000, and 1234567 for both
\* "1.234567" and "1.2345675".
C24_TruncatesTowardZero ==
  conv.pc = "drops" => conv.drops = ExactDrops(conv.amount)

\* a step in which a switchWallet call settles
SwitchSettles(o) ==
  /\ ops'[o] # ops[o]
  /\ ops'[o].kind = "switch" /\ ops'[o].pc = "done"

\* the active wallet when the settling switchWallet call was made
ActiveBeforeSwitch(o) ==
  IF ops[o].kind = "switch" /\ OpInFlight(o) THEN ops[o].before ELSE wallet

\* C31: a switchWallet call that throws leaves the active wallet as it was
\* when the call was made; one that returns leaves the requested address
\* active.
C31_SwitchWalletAtomic ==
  [][\A o \in OpSlots :
       SwitchSettles(o) =>
         IF ops'[o].outcome.thrown
           THEN wallet' = ActiveBeforeSwitch(o)
           ELSE wallet' = ops'[o].address]_vars

\* a store operation finishes in this step: connect settles, the code after
\* an awaited addWallet or switchWallet has run, or removeWallet has returned
StoreOperationFinishes ==
  \/ ops["o1"].pc = "sc_connect" /\ ops'["o1"].pc = "done"
  \/ \E o \in OpSlots : store'.settled[o] # store.settled[o]
  \/ wallets' # wallets /\ Len(wallets') < Len(wallets)

\* C32: when a store operation (connect, addWallet, switchWallet,
\* removeWallet) finishes, resolved or rejected, the store's walletAddress
\* equals the service's getWalletAddress()
C32_StoreAddressIsServiceAddress ==
  [][(StoreOperationFinishes /\ store'.xrplService)
       => store'.walletAddress = wallet']_vars

\* an invocation reaches the await of client.connect() in this step
ConnectInvoked(o) ==
  ops'[o].pc \in ConnectPcs /\ ops[o].pc \notin ConnectPcs

\* C33: client.connect() is invoked only when the service is not connected
\* and no other invocation of it is in flight, the constructor's autoConnect
\* and an explicit connect() of the store included
C33_ConnectNeverOverlaps ==
  [][\A o \in AllOps :
       ConnectInvoked(o) => ~isConnected /\ ConnectsInFlight' = {o}]_vars

\* the background autoConnect of the constructor settles in this step
AutoConnectSettles ==
  ops["auto"].pc = "ac_connect" /\ ops'["auto"].pc = "done"

\* a switchWallet or addWallet call has completed and no call is in flight
SelectionCompleted ==
  /\ \E o \in OpSlots : /\ ops[o].kind \in {"add", "switch"}
                        /\ ops[o].pc = "done"
                        /\ ~ops[o].outcome.thrown
  /\ \A o \in OpSlots : ~OpInFlight(o)

\* C34: once a switchWallet or addWallet call has completed, the settling
\* of the constructor's autoConnect leaves the active wallet as it is
C34_AutoConnectKeepsSelection ==
  [][(AutoConnectSettles /\ SelectionCompleted) => wallet' = wallet]_vars

\* C35: the metadata record that handleConnectWithSecretKey writes after
\* addWallet is keyed by the address of the wallet just imported, and holds
\* that address
C35_MetadataKeyedByImported ==
  form.import.pc = "hi_save" =>
    /\ form.import.key = form.import.imported
    /\ form.import.address = form.import.imported

\* C36: every invocation of handleSubmit eventually leaves isLoading false
C36_SubmitLeavesLoadingFalse ==
  form.submit.isLoading ~> ~form.submit.isLoading

\* the pin request of saveAccountMetadata settles in this step
SaveSettles ==
  /\ pinata.call.op = "save" /\ pinata.call.pc = "pin"
  /\ pinata'.call.pc = "done"

SaveSucceeds(a) ==
  SaveSettles /\ pinata.call.address = a /\ ~pinata'.call.outcome.thrown

\* getAccountMetadata(a) is called in this step
GetCalled(a) ==
  /\ pinata'.calls = pinata.calls + 1
  /\ pinata'.call.op = "get" /\ pinata'.call.address = a

\* the record m with its name defaulted when empty
SavedRecord(a, m) ==
  IF m.name = "" THEN [name |-> "Account " \o a.id] ELSE m

\* C37: a successful saveAccountMetadata(a, m) leaves m, its name defaulted
\* when empty, as the cache entry of a; the entry stays until the next
\* successful save for a; getAccountMetadata(a) returns a cache entry
\* without a fetch; a failed pin request leaves cache and stored hashes
\* as they were
C37_CacheConsistent ==
  [][/\ \A a \in PinataAddresses :
          /\ SaveSucceeds(a) =>
               pinata'.cache[a] = SavedRecord(a, pinata.call.meta)
          /\ (pinata.cache[a] # Null /\ ~SaveSucceeds(a)) =>
               pinata'.cache[a] = pinata.cache[a]
          /\ (GetCalled(a) /\ pinata.cache[a] # Null) =>
               /\ pinata'.call.pc = "done"
               /\ pinata'.call.outcome = Resolved(pinata.cache[a])
               /\ pinata'.call.fetches = 0
     /\ (SaveSettles /\ pinata'.call.outcome.thrown) =>
          /\ pinata'.cache = pinata.cache
          /\ pinata'.hashes = pinata.hashes]_vars

\* a record saved with an empty name has been read back from the cache
C37_Witness ==
  /\ pinata.call.op = "get" /\ pinata.call.pc = "done"
  /\ pinata.call.cached /\ pinata.call.fetches = 0
  /\ pinata.call.outcome =
       Resolved([name |-> "Account " \o pinata.call.address.id])


====
